---- MODULE Spec2Model ----
(***************************************************************************)
(* MathCompose: the AxiomPrimeSolver dispatcher (solve), its evaluators,   *)
(* the exact-rational Fraction class and the modular-arithmetic helpers    *)
(* of the number-theory evaluator.                                         *)
(*                                                                         *)
(* Several specifications share the module:                                *)
(*   Spec          the dispatcher: solve() scanning its evaluator list     *)
(*   SpecRepeat    calls of solve one after another, on one solver or on   *)
(*                 a newly constructed one, while the wall clock advances  *)
(*   SpecLucas     the recursion of lucas, one call frame per step         *)
(*   SpecFraction  a Fraction accumulator under construction/add/sub/      *)
(*                 mul/div                                                 *)
(*   SpecArith     the pure helpers lucas / nCrModP / power on drawn       *)
(*                 arguments                                               *)
(***************************************************************************)
EXTENDS Integers, Sequences, FiniteSets, TLC

VARIABLES
    modulo,      \* the solver object: its field modulo
    readonly,    \* the solver object: its readonly fields ETA, LAMBDA, ...
    clock,       \* the wall clock read by createLog
    seen,        \* the caller: an earlier call of solve it kept, [problem, modulo, result]
    problem,     \* solve: the text being dispatched (a sequence of fragments)
    pc,          \* solve: "idle" | "loop" | "done" | "raised"
    idx,         \* solve: position in the solvers list (1-based)
    ret,         \* solve: the SolverResult returned (NoResult before)
    fracA,       \* Fraction: the Fraction object held (the receiver of the next call)
    fracCall,    \* Fraction: the last call [op, n, d]: the constructor's arguments,
                 \*           or the numerator/denominator of a binary operation's operand
    fracRet,     \* Fraction: outcome of the last call [thrown, message, value]
    chainOrig,   \* Fraction: the value a on which a.div(b) was called
    chainStage,  \* Fraction: "none" | "div" | "divmul" (progress of a.div(b).mul(b))
    argN, argK, argP,   \* arithmetic helpers: the three arguments drawn
    called,      \* arithmetic helpers: "" | "lucas" | "power"
    arithRet,    \* arithmetic helpers: [thrown, val] of the last call
    frameK,      \* lucas: the argument k of the innermost call frame
    depth,       \* lucas: the number of call frames on the stack
    lucasPc      \* lucas: "" | "call" | "base" | "RangeError"

vars == <<modulo, readonly, clock, seen, problem, pc, idx, ret,
          fracA, fracCall, fracRet, chainOrig, chainStage,
          argN, argK, argP, called, arithRet, frameK, depth, lucasPc>>

objectVars == <<modulo, readonly>>
callerVars == <<clock, seen>>
solveVars  == <<objectVars, callerVars, problem, pc, idx, ret>>
fracVars   == <<fracA, fracCall, fracRet, chainOrig, chainStage>>
lucasVars  == <<frameK, depth, lucasPc>>
arithVars  == <<argN, argK, argP, called, arithRet, lucasVars>>

(***************************************************************************)
(* Bounds of the model.                                                    *)
(***************************************************************************)
MaxFrags == 2    \* a text is the concatenation of at most MaxFrags fragments
MaxNum   == 3    \* bare numbers in a text range over 0..MaxNum
MaxVal   == 3    \* Fraction constructor arguments range over -MaxVal..MaxVal
FracCap  == 12   \* Fractions are followed while |numerator|, denominator <= FracCap
MaxN     == 9    \* lucas/power: first and second argument range over 0..MaxN
MaxP     == 7    \* lucas/power: third argument (modulus) ranges over 0..MaxP
SmallModulo == 7 \* a solver is constructed with modulus 100000 or SmallModulo
MaxClock == 1    \* the wall clock ranges over 0..MaxClock
MaxStack == 6    \* lucas: call frames the stack holds before RangeError

(***************************************************************************)
(* JavaScript integer arithmetic.  BigInt `/` truncates toward zero and    *)
(* both BigInt and Number `%` take the sign of the dividend.               *)
(***************************************************************************)
Abs(x) == IF x < 0 THEN -x ELSE x

JsDiv(a, b) ==
    IF (a >= 0) = (b > 0) THEN Abs(a) \div Abs(b) ELSE -(Abs(a) \div Abs(b))

JsRem(a, b) ==
    IF a >= 0 THEN a % Abs(b) ELSE -((-a) % Abs(b))

(***************************************************************************)
(* class Fraction (src/src/utils/fraction.ts)                              *)
(***************************************************************************)
\* placeholder in the outcome of a call that threw: no Fraction object exists
NoFraction == [numerator |-> 0, denominator |-> 0]

DenominatorError == "Denominator cannot be zero"

RECURSIVE Fraction_gcdLoop(_, _)
Fraction_gcdLoop(a, b) ==
    IF b # 0 THEN Fraction_gcdLoop(b, JsRem(a, b)) ELSE a

\* a gcd that finds no common divisor
Fraction_gcd_one(a, b) == 1

\* private gcd(a, b): Euclid on the absolute values
Fraction_gcd(a, b) == Fraction_gcdLoop(Abs(a), Abs(b))

\* reduce() without the sign normalisation of lines 32-35
Fraction_reduce_keepSign(num, den) ==
    LET g == Fraction_gcd(num, den)
    IN  [numerator |-> JsDiv(num, g), denominator |-> JsDiv(den, g)]

\* private reduce(): divide by the gcd, then move the sign to the numerator
Fraction_reduce(num, den) ==
    LET g == Fraction_gcd(num, den)
        n == JsDiv(num, g)
        d == JsDiv(den, g)
    IN  IF d < 0 THEN [numerator |-> -n, denominator |-> -d]
                 ELSE [numerator |-> n, denominator |-> d]

\* the constructor without the zero check of lines 9-11: reduce() runs on a zero
\* denominator (0n / 0n raises RangeError, n / 0 reduces to +-1 / 0)
Fraction_new_unchecked(num, den) ==
    IF num = 0 /\ den = 0
    THEN [thrown |-> TRUE, message |-> "Division by zero", value |-> NoFraction]
    ELSE [thrown |-> FALSE, message |-> "", value |-> Fraction_reduce(num, den)]

\* constructor(numerator, denominator): [thrown, message, value]
Fraction_new(num, den) ==
    IF den = 0
    THEN [thrown |-> TRUE, message |-> DenominatorError, value |-> NoFraction]
    ELSE [thrown |-> FALSE, message |-> "", value |-> Fraction_reduce(num, den)]

Fraction_add(this, other) ==
    Fraction_new(this.numerator * other.denominator + other.numerator * this.denominator,
                 this.denominator * other.denominator)

Fraction_sub(this, other) ==
    Fraction_new(this.numerator * other.denominator - other.numerator * this.denominator,
                 this.denominator * other.denominator)

Fraction_mul(this, other) ==
    Fraction_new(this.numerator * other.numerator,
                 this.denominator * other.denominator)

\* div multiplying straight across instead of by the reciprocal
Fraction_div_straight(this, other) ==
    Fraction_new(this.numerator * other.numerator,
                 this.denominator * other.denominator)

\* div with other.denominator written for other.numerator in the new denominator
Fraction_div_typo(this, other) ==
    Fraction_new(this.numerator * other.denominator,
                 this.denominator * other.denominator)

Fraction_div(this, other) ==
    Fraction_new(this.numerator * other.denominator,
                 this.denominator * other.numerator)

\* new Fraction(n): the denominator defaults to 1n
Fraction_of(n) == Fraction_new(n, 1).value

(***************************************************************************)
(* JavaScript Number arithmetic on non-negative integers.  A Number is an  *)
(* IEEE-754 double: a product is exact while it is below 2^53 and is       *)
(* rounded to 53 significant bits (ties to even) above; `%` is exact.      *)
(* NumMulMod(x, y, m) is (x * y) % m for integers 0 <= x, y < 2^30 and     *)
(* 0 < m < 2^30, computed on 15-bit halves so that no intermediate value   *)
(* leaves the 32-bit range.                                                *)
(***************************************************************************)
Pow2(e) == 2 ^ e

\* number of significant bits of x, 0 <= x < 2^30
BitLen(x) ==
    IF x = 0 THEN 0 ELSE CHOOSE k \in 1..30 : Pow2(k - 1) <= x /\ x < Pow2(k)

\* (acc * 2^times) mod m for acc < m < 2^30, by doublings taken in two halves
RECURSIVE ShiftMod(_, _, _)
ShiftMod(acc, times, m) ==
    IF times = 0 THEN acc
    ELSE IF times = 1 THEN (2 * acc) % m
    ELSE LET first == ShiftMod(acc, times \div 2, m)
         IN  IF first = 0 THEN 0
             ELSE ShiftMod(first, times - (times \div 2), m)

\* the exact product x * y as [hi, lo] with value hi * 2^30 + lo, lo < 2^30
Product60(x, y) ==
    LET x1 == x \div Pow2(15)   x0 == x % Pow2(15)
        y1 == y \div Pow2(15)   y0 == y % Pow2(15)
        mid == (x1 * y0) + (x0 * y1)
        low == (x0 * y0) + ((mid % Pow2(15)) * Pow2(15))
    IN  [hi |-> (x1 * y1) + (mid \div Pow2(15)) + (low \div Pow2(30)),
         lo |-> low % Pow2(30)]

\* round [hi, lo] to 53 significant bits, ties to even
Round53(v) ==
    LET e == 30 + BitLen(v.hi) - 53 IN
    IF v.hi = 0 \/ e <= 0 THEN v
    ELSE LET q    == v.lo \div Pow2(e)
             r    == v.lo % Pow2(e)
             half == Pow2(e - 1)
             up   == IF r > half \/ (r = half /\ q % 2 = 1) THEN 1 ELSE 0
             lo2  == (q + up) * Pow2(e)
         IN  IF lo2 = Pow2(30) THEN [hi |-> v.hi + 1, lo |-> 0]
                               ELSE [hi |-> v.hi, lo |-> lo2]

NumMulMod(x, y, m) ==
    IF x < Pow2(15) /\ y < Pow2(15)
    THEN (x * y) % m
    ELSE LET v == Round53(Product60(x, y))
         IN  (ShiftMod(v.hi % m, 30, m) + (v.lo % m)) % m

(***************************************************************************)
(* Modular helpers nested in solveNumberTheory                             *)
(* (src/src/utils/axiom-prime-solver.ts, lines 244-262)                    *)
(***************************************************************************)
\* one pass of the loop body of power over its locals [res, a, b]:
\*   if (b % 2 === 1) res = (res * a) % m; a = (a * a) % m; b = Math.floor(b / 2);
powerStep(st, m) ==
    [res |-> IF st.b % 2 = 1 THEN NumMulMod(st.res, st.a, m) ELSE st.res,
     a   |-> NumMulMod(st.a, st.a, m),
     b   |-> st.b \div 2]

\* while (b > 0) {...}, at most `passes` passes, taken in two halves
RECURSIVE powerLoop(_, _, _)
powerLoop(st, passes, m) ==
    IF st.b = 0 \/ passes = 0 THEN st
    ELSE IF passes = 1 THEN powerStep(st, m)
    ELSE LET first == powerLoop(st, passes \div 2, m)
         IN  IF first.b = 0 THEN first
             ELSE powerLoop(first, passes - (passes \div 2), m)

\* power(a, b, m): let res = 1; a %= m; while (b > 0) {...}; return res
\* (b < 2^31 is halved to 0 within 32 passes)
power(a, b, m) == powerLoop([res |-> 1, a |-> a % m, b |-> b], 32, m).res

\* for (let i = 0; i < r; i++) num = (num * (n - i)) % p;   (0 stays 0)
RECURSIVE nCrNum(_, _, _, _, _)
nCrNum(num, i, n, r, p) ==
    IF i >= r \/ num = 0 THEN num
    ELSE nCrNum(NumMulMod(num, n - i, p), i + 1, n, r, p)

\* for (let i = 1; i <= r; i++) den = (den * i) % p;        (0 stays 0)
RECURSIVE nCrDen(_, _, _, _)
nCrDen(den, i, r, p) ==
    IF i > r \/ den = 0 THEN den
    ELSE nCrDen(NumMulMod(den, i, p), i + 1, r, p)

\* nCrModP(n, r, p), called by lucas with n, r already reduced modulo p
nCrModP(n, r, p) ==
    IF r = 0 THEN 1
    ELSE IF r > n THEN 0
    ELSE NumMulMod(nCrNum(1, 0, n, r, p), power(nCrDen(1, 1, r, p), p - 2, p), p)

RECURSIVE lucasRec(_, _, _)
lucasRec(n, k, p) ==
    IF k = 0 THEN 1
    ELSE NumMulMod(lucasRec(n \div p, k \div p, p), nCrModP(n % p, k % p, p), p)

\* lucas(n, k, p): [thrown, val].  With k > 0 and p <= 1, Math.floor(k/p) never
\* reaches 0 (k/1 = k, k/0 = Infinity): the recursion has no base case and the
\* engine ends it with RangeError (call stack exhausted).
lucas(n, k, p) ==
    IF k # 0 /\ p <= 1
    THEN [thrown |-> TRUE, val |-> 0]
    ELSE [thrown |-> FALSE, val |-> lucasRec(n, k, p)]

(***************************************************************************)
(* SolverResult (src/src/types/index.ts).                                  *)
(* An answer is a number or a string.  A number is n / d with d in {1, 2}  *)
(* (halves arise in Pick's theorem) or NaN; -0 is 0.  A string computed    *)
(* from floating-point values (toFixed) is kept as the name of the         *)
(* expression formatted.  null and undefined are the strings "null" and    *)
(* "undefined".  A log is [timestamp, message, type], the timestamp being  *)
(* the wall clock when the evaluator ran.  Steps and log messages are kept *)
(* line by line, with '#' in place of each interpolated value; metadata is *)
(* left out.                                                               *)
(***************************************************************************)
InvariantType ==
    { "SPECTRAL_ZETA", "POLYNOMIAL", "ROOT_DYNAMICS", "SEQUENCES", "FUNCTIONAL_EQ",
      "NUMBER_THEORY", "DIOPHANTINE", "COMBINATORIAL", "GEOMETRIC",
      "DIMENSIONAL_SCALE", "CONSENSUS_STATE", "ALLOCATION_RATIO", "UNLOCK_SCHEDULE",
      "YIELD_RATE", "VIVIANI_ORACLE", "DIFFICULTY_ADJUSTMENT", "WORK_SCORE",
      "EMISSION_RATE", "CONSENSUS_MAGNITUDE", "HALVING_SCHEDULE", "REPUTATION_SCORE",
      "STAKE_RATIO", "AGE_RATIO", "DYNAMIC_PRICING", "FEE_MARKET",
      "STAKING_MULTIPLIER", "PORTFOLIO_METRICS", "BURN_RATE", "NETWORK_METRICS",
      "HARDY_Z_FUNCTION", "SPECTRAL_LOAD", "PSI_STABILITY", "QUANTUM_FALLBACK",
      "RIEMANN_SIEGEL_THETA", "PRIME_SPECTRAL_ENGINE", "RH_EQUILIBRIUM" }

\* InvariantType.<name>: the member's value, undefined for a name the enum lacks
InvariantType_member(name) == IF name \in InvariantType THEN name ELSE "undefined"

Num(n) == [t |-> "number", n |-> n, d |-> 1, s |-> ""]
Str(s) == [t |-> "string", n |-> 0, d |-> 1, s |-> s]
NaN    == [t |-> "number", n |-> 0, d |-> 1, s |-> "NaN"]

\* n2 / 2 as a number
Halves(n2) ==
    IF n2 % 2 = 0 THEN Num(n2 \div 2) ELSE [t |-> "number", n |-> n2, d |-> 2, s |-> ""]

\* answer !== 0
NotZero(answer) == ~(answer.t = "number" /\ answer.s = "" /\ answer.n = 0)

\* a createLog that writes the time of day into the message as well
createLog_timed(message, type) ==
    [timestamp |-> clock, message |-> message \o " at " \o ToString(clock), type |-> type]

\* timestamp: new Date().toLocaleTimeString()
createLog(message, type) == [timestamp |-> clock, message |-> message, type |-> type]

SolverResult(answer, invariantUsed, steps, logs) ==
    [answer |-> answer, invariantUsed |-> invariantUsed,
     steps |-> steps, logs |-> logs]

\* constructor(modulo: number = 100000)
DefaultModulo == 100000

\* the moduli a solver is constructed with
Moduli == {DefaultModulo, SmallModulo}

\* the readonly fields, each kept as the expression that initialises it
\* (LAMBDA_ is the field LAMBDA)
Readonly ==
    [ETA            |-> "1 / Math.sqrt(2)",
     LAMBDA_        |-> "1 / Math.sqrt(2)",
     PHI            |-> "(1 + Math.sqrt(5)) / 2",
     PHI_INV        |-> "(Math.sqrt(5) - 1) / 2",
     PHI_INV_2      |-> "(3 - Math.sqrt(5)) / 2",
     TAU_C          |-> "Math.sqrt(2)",
     DELTA_CRITICAL |-> "0.5 + this.ETA",
     ORACLE_DELTA   |-> "0.231"]

\* the value of `ret` while no call of solve has returned
NoResult == [answer |-> Num(0), invariantUsed |-> "", steps |-> <<>>, logs |-> <<>>]

\* the value of `seen` while the caller has kept no call
NoSeen == [problem |-> <<>>, modulo |-> 0, result |-> NoResult]

\* what a call of an evaluator ends in: null, a SolverResult, or an exception
Null      == [kind |-> "null",   result |-> NoResult]
Thrown    == [kind |-> "throw",  result |-> NoResult]
Return(r) == [kind |-> "result", result |-> r]

(***************************************************************************)
(* SpecFraction: a Fraction under construction and add/sub/mul/div         *)
(***************************************************************************)
ArgRange == (-MaxVal)..MaxVal

\* the Fractions a caller can pass as `other`
Operands ==
    { Fraction_new(n, d).value : n \in ArgRange, d \in ArgRange \ {0} }

InCap(f) == Abs(f.numerator) <= FracCap /\ Abs(f.denominator) <= FracCap

NoCall == [op |-> "", n |-> 0, d |-> 0]
NoRet  == [thrown |-> FALSE, message |-> "", value |-> NoFraction]

\* the state after `new AxiomPrimeSolver(m)`: no call of solve yet
Constructed(m) ==
    /\ modulo = m /\ readonly = Readonly
    /\ clock = 0 /\ seen = NoSeen
    /\ problem = <<>> /\ pc = "idle" /\ idx = 0 /\ ret = NoResult

IdleSolve == Constructed(DefaultModulo)
IdleFraction ==
    /\ fracA = Fraction_of(0) /\ fracCall = NoCall /\ fracRet = NoRet
    /\ chainOrig = Fraction_of(0) /\ chainStage = "none"
IdleLucas == frameK = 0 /\ depth = 0 /\ lucasPc = ""
IdleArith ==
    /\ argN = 0 /\ argK = 0 /\ argP = 0 /\ called = ""
    /\ arithRet = [thrown |-> FALSE, val |-> 0]
    /\ IdleLucas

\* the state after `new Fraction(n, d)` returned
FractionInit ==
    /\ \E n \in ArgRange, d \in ArgRange \ {0} :
          /\ fracA = Fraction_new(n, d).value
          /\ fracCall = [op |-> "new", n |-> n, d |-> d]
          /\ fracRet = Fraction_new(n, d)
          /\ chainOrig = Fraction_new(n, d).value
    /\ chainStage = "none"
    /\ IdleSolve /\ IdleArith

\* the caller keeps the object it had when the call throws
Landed(r) == IF r.thrown THEN fracA ELSE r.value

Construct(n, d) ==
    LET r == Fraction_new(n, d) IN
    /\ fracCall' = [op |-> "new", n |-> n, d |-> d]
    /\ fracRet' = r
    /\ fracA' = Landed(r)
    /\ chainOrig' = Landed(r)
    /\ chainStage' = "none"
    /\ UNCHANGED <<solveVars, arithVars>>

Binary(op, r, b) ==
    /\ r.thrown \/ InCap(r.value)
    /\ fracCall' = [op |-> op, n |-> b.numerator, d |-> b.denominator]
    /\ fracRet' = r
    /\ fracA' = Landed(r)
    /\ UNCHANGED <<solveVars, arithVars>>

Add(b) ==
    /\ Binary("add", Fraction_add(fracA, b), b)
    /\ chainOrig' = fracA' /\ chainStage' = "none"

Sub(b) ==
    /\ Binary("sub", Fraction_sub(fracA, b), b)
    /\ chainOrig' = fracA' /\ chainStage' = "none"

\* a.div(b): remember a, so that a following .mul(b) can be compared with it
Div(b) ==
    /\ Binary("div", Fraction_div(fracA, b), b)
    /\ IF Fraction_div(fracA, b).thrown
       THEN chainOrig' = fracA' /\ chainStage' = "none"
       ELSE chainOrig' = fracA /\ chainStage' = "div"

Mul(b) ==
    /\ Binary("mul", Fraction_mul(fracA, b), b)
    /\ IF /\ chainStage = "div"
          /\ fracCall = [op |-> "div", n |-> b.numerator, d |-> b.denominator]
       THEN chainOrig' = chainOrig /\ chainStage' = "divmul"
       ELSE chainOrig' = fracA' /\ chainStage' = "none"

FractionNext ==
    \/ \E n \in ArgRange, d \in ArgRange : Construct(n, d)
    \/ \E b \in Operands : Add(b)
    \/ \E b \in Operands : Sub(b)
    \/ \E b \in Operands : Mul(b)
    \/ \E b \in Operands : Div(b)

SpecFraction == FractionInit /\ [][FractionNext]_vars

(***************************************************************************)
(* SpecArith: lucas and power applied to drawn arguments                   *)
(***************************************************************************)
\* a modulus above 2^26, where products of residues exceed 2^53
LargeModulus == 1000000000 + 7

ArithInit ==
    /\ argN \in 0..MaxN /\ argK \in 0..MaxN
    /\ argP \in (0..MaxP) \cup {LargeModulus}
    /\ called = "" /\ arithRet = [thrown |-> FALSE, val |-> 0]
    /\ IdleLucas
    /\ IdleSolve /\ IdleFraction

\* const ans = lucas(n, k, pVal)
CallLucas ==
    /\ called = ""
    /\ called' = "lucas"
    /\ arithRet' = lucas(argN, argK, argP)
    /\ UNCHANGED <<argN, argK, argP, lucasVars, solveVars, fracVars>>

\* power(a, b, m) on its contract: non-negative exponent, positive modulus
CallPower ==
    /\ called = ""
    /\ argP \in 1..MaxP
    /\ called' = "power"
    /\ arithRet' = [thrown |-> FALSE, val |-> power(argN, argK, argP)]
    /\ UNCHANGED <<argN, argK, argP, lucasVars, solveVars, fracVars>>

ArithNext == CallLucas \/ CallPower

SpecArith == ArithInit /\ [][ArithNext]_vars

(***************************************************************************)
(* The problem text.                                                       *)
(* A text is a sequence of fragments joined by "; ".  A fragment is a      *)
(* lower-case template whose k-th `#` stands for the decimal numeral of    *)
(* its k-th argument: [w |-> "tau=#", a |-> <<1>>] is the text "tau=1".    *)
(* What String.includes and each regular expression of the evaluators      *)
(* find in a template is tabulated below; no keyword and no match spans    *)
(* the separator.                                                          *)
(***************************************************************************)
Frag(w, a) == [w |-> w, a |-> a]

Phrases ==
    { "hello world", "riemann", "riemann hypothesis", "critical line correction",
      "quadratic", "totient", "subset", "progression", "dimensional scale",
      "psi stability", "delta", "emission rate", "golden ratio",
      "staking multiplier", "hardy z", "spectral load", "quantum fallback",
      "prove rh", "solve rh" }

BinomialForm  == "(# choose #) mod #"
QuadraticForm == "quadratic leading coeff #, # through (#, #), (#, #)"
RootSumForm   == "sum of the roots of x^2 + #x + # = 0"
RootSquaresForm == "sum of the squares of the roots of x^2 + #x + # = 0"
RootSumMinusForm == "sum of the roots of x^2 - #x + # = 0"
RootSquaresMinusForm == "sum of the squares of the roots of x^2 - #x - # = 0"
RootSumBareForm == "sum of the roots of x^2 - x + # = 0"
RootSquaresBareForm == "sum of the squares of the roots of x^2 + x - # = 0"
RootProductForm == "product of the roots of x^2 + #x + # = 0"
CauchyForm    == "f(m + n + mn) = f(m) + f(n) find f(#)"
ArithmeticForm == "arithmetic progression first term # common difference # # terms"

Fragments ==
    { Frag(w, <<>>) : w \in Phrases }
    \cup { Frag(w, <<k>>) : w \in {"#", "s_#", "frobenius #"}, k \in 0..MaxNum }
    \cup { Frag("frobenius #", <<k>>) : k \in {6, 9, 499, 500} }
    \cup { Frag("n=#", <<k>>) : k \in {0, 1} }
    \cup { Frag("t=#", <<k>>) : k \in {1, MaxNum + 1} }
    \cup { Frag(w, <<1>>) : w \in {"tau=#", "unlock pool #",
                                   "# interior lattice points",
                                   "reputation median stake=#", "median age=#",
                                   "share1=#", "burn rate work=#", "supply=#"} }
    \cup { Frag(BinomialForm, <<2, k, 3>>) : k \in 0..MaxNum }
    \cup { Frag(BinomialForm, <<2, 1, 0>>) }
    \cup { Frag(QuadraticForm, a) :
             a \in { <<0, 0, 0, 0, 1, 0>>, <<1, 1, 1, 1, 1, 2>>, <<2, 3, 1, 5, 2, 10>>,
                     <<0, 0, 0, -3, 1, -3>>, <<0, 0, 0, 0, 3, 1>> } }
    \cup { Frag("find p(#)", <<k>>) : k \in {2, 100} }
    \cup { Frag("polyhedron with # vertices", <<k>>) : k \in {3, 8} }
    \cup { Frag("polyhedron with # edges", <<12>>) }
    \cup { Frag("# edges", <<k>>) : k \in {1, 12} }
    \cup { Frag("# faces", <<6>>) }
    \cup { Frag("# boundary", <<k>>) : k \in {2, 3} }
    \cup { Frag(RootSumForm, a) : a \in { <<0, 1>>, <<3, 2>> } }
    \cup { Frag(RootSquaresForm, <<3, 2>>) }
    \cup { Frag(RootSumMinusForm, <<5, 6>>), Frag(RootSquaresMinusForm, <<1, 2>>),
           Frag(RootSumBareForm, <<0>>), Frag(RootSquaresBareForm, <<2>>),
           Frag(RootProductForm, <<3, 2>>) }
    \cup { Frag(CauchyForm, <<1>>) }
    \cup { Frag(ArithmeticForm, a) : a \in { <<1, 1, 0>>, <<1, 2, 3>> } }
    \cup { Frag("reputation stake=#, median stake=#", a) :
             a \in { <<2, 1>>, <<1, 0>>, <<0, 0>> } }
    \cup { Frag("reputation median stake=#, stake=#", <<1, 2>>) }
    \cup { Frag("age=#, median age=#", a) :
             a \in { <<2, 1>>, <<1, 0>>, <<0, 0>>, <<0, 1>> } }
    \cup { Frag("median age=#, age=#", <<1, 2>>) }
    \cup { Frag("pool #", <<k>>) : k \in {4, 8, 9} }
    \cup { Frag("totient of #", <<k>>) : k \in {12, 30} }
    \cup { Frag("dimensional scale for pool #", <<4>>) }

Texts == UNION { [1..n -> Fragments] : n \in 0..MaxFrags }

\* the keywords tested with String.includes that occur in a template
Keywords(w) ==
    CASE w = "riemann"                    -> {"riemann"}
      [] w = "riemann hypothesis"         -> {"riemann", "riemann hypothesis"}
      [] w = "critical line correction"   -> {"critical line", "critical line correction"}
      [] w = "psi stability"              -> {"psi", "psi stability"}
      [] w = "emission rate"              -> {"emission", "emission rate"}
      [] w \in {"quadratic", "totient", "subset", "progression", "dimensional scale",
                "delta", "golden ratio", "staking multiplier", "hardy z",
                "spectral load", "quantum fallback", "prove rh", "solve rh"} -> {w}
      [] w = "frobenius #"                -> {"frobenius"}
      [] w = "totient of #"               -> {"totient"}
      [] w = "dimensional scale for pool #" -> {"dimensional scale"}
      [] w = QuadraticForm                -> {"quadratic"}
      [] w = "unlock pool #"              -> {"unlock"}
      [] w = "polyhedron with # vertices" -> {"polyhedron", "vertices"}
      [] w = "polyhedron with # edges"    -> {"polyhedron", "edges"}
      [] w = "# edges"                    -> {"edges"}
      [] w = "# faces"                    -> {"faces"}
      [] w = "# interior lattice points"  -> {"lattice points"}
      [] w \in {RootSumForm, RootSumMinusForm, RootSumBareForm}
                                          -> {"root", "sum", "sum of the roots"}
      [] w \in {RootSquaresForm, RootSquaresMinusForm, RootSquaresBareForm}
                                          -> {"root", "sum", "sum of the squares"}
      [] w = RootProductForm              -> {"root"}
      [] w = CauchyForm                   -> {"f(m + n + mn)", "f(m)", "f(n)"}
      [] w = ArithmeticForm               -> {"progression"}
      [] w \in {"reputation median stake=#", "reputation stake=#, median stake=#",
                "reputation median stake=#, stake=#"} -> {"reputation"}
      [] w = "burn rate work=#"           -> {"burn rate"}
      [] OTHER                            -> {}

\* p.includes(needle)
includes(p, needle) == \E i \in DOMAIN p : needle \in Keywords(p[i].w)

\* triggers.some(t => p.includes(t))
some(triggers, p) == \E t \in triggers : includes(p, t)

Min(S) == CHOOSE x \in S : \A y \in S : x <= y

\* problem.match(re) for a regular expression with one capturing group per
\* alternative: `forms` maps each template the expression matches to the
\* argument captured.  <<>> is null, <<v>> a match whose group holds v's numeral.
match(forms, p) ==
    LET hits == { i \in DOMAIN p : p[i].w \in DOMAIN forms }
    IN  IF hits = {} THEN <<>>
        ELSE LET f == p[Min(hits)] IN << f.a[forms[f.w]] >>

\* problem.match(re) for an expression whose groups are, in order, all the
\* arguments of the templates `forms` it matches: <<>> or the groups
matchGroups(forms, p) ==
    LET hits == { i \in DOMAIN p : p[i].w \in forms }
    IN  IF hits = {} THEN <<>> ELSE p[Min(hits)].a

\* the digit runs of a fragment in text order: [v, word], word telling whether
\* the run has a word boundary on both sides (3 in "3x", 1 in "share1" and 0 in
\* "s_0" have not)
DigitRuns(f) ==
    CASE f.w \in {RootSumForm, RootSquaresForm, RootSumMinusForm,
                  RootSquaresMinusForm, RootProductForm} ->
             << [v |-> 2, word |-> TRUE], [v |-> f.a[1], word |-> FALSE],
                [v |-> f.a[2], word |-> TRUE], [v |-> 0, word |-> TRUE] >>
      [] f.w \in {RootSumBareForm, RootSquaresBareForm} ->
             << [v |-> 2, word |-> TRUE], [v |-> f.a[1], word |-> TRUE],
                [v |-> 0, word |-> TRUE] >>
      [] f.w = "share1=#" -> << [v |-> 1, word |-> FALSE], [v |-> f.a[1], word |-> TRUE] >>
      [] f.w = "s_#"      -> << [v |-> f.a[1], word |-> FALSE] >>
      \* a minus sign is not part of a digit run
      [] OTHER            -> [i \in DOMAIN f.a |-> [v |-> Abs(f.a[i]), word |-> TRUE]]

RECURSIVE Runs(_)
Runs(p) == IF p = <<>> THEN <<>> ELSE DigitRuns(Head(p)) \o Runs(Tail(p))

\* problem.match(/(\d+)/): <<>> or the first digit run
firstDigits(p) == IF Runs(p) = <<>> THEN <<>> ELSE << Runs(p)[1].v >>

IsWord(r) == r.word

\* (problem.match(/\b\d+\b/g) || []).map(Number)
wordNumbers(p) ==
    LET rs == SelectSeq(Runs(p), IsWord) IN [i \in DOMAIN rs |-> rs[i].v]

(***************************************************************************)
(* AxiomPrimeSolver: the classical evaluators                              *)
(* (src/src/utils/axiom-prime-solver.ts, lines 9-424).  In the steps and   *)
(* log messages '#' stands for an interpolated value.                      *)
(***************************************************************************)
RECURSIVE gcdLoop(_, _)
gcdLoop(a, b) == IF b # 0 THEN gcdLoop(b, a % b) ELSE a

\* a gcd that finds every pair coprime
gcd_unit(a, b) == gcdLoop(1, Abs(b))

\* private gcd(a, b)
gcd(a, b) == gcdLoop(Abs(a), Abs(b))

\* a spectral-zeta evaluator that does not leave the Riemann hypothesis to the
\* prime-spectral engine
solveSpectralZeta_unguarded(p) ==
    IF ~some({"spectral score", "zeta sum", "riemann", "euler score",
              "critical line", "frequency t"}, p)
    THEN Null
    ELSE Return(SolverResult(
        Str("score.toFixed(4)"),
        InvariantType_member("SPECTRAL_ZETA"),
        << "Analyzing Dirichlet series Re(s)=0.5" >>,
        << createLog("Analysis: Zeta convergence engine engaged for t=#", "info") >>))

solveSpectralZeta(p) ==
    IF includes(p, "riemann hypothesis") \/ includes(p, "prove rh")
       \/ includes(p, "solve rh")
    THEN Null
    ELSE IF ~some({"spectral score", "zeta sum", "riemann", "euler score",
                   "critical line", "frequency t"}, p)
    THEN Null
    ELSE Return(SolverResult(
        Str("score.toFixed(4)"),
        InvariantType_member("SPECTRAL_ZETA"),
        << "Analyzing Dirichlet series Re(s)=0.5",
           "Extracted frequency parameter t=#",
           "Computing partial Zeta sum for n=[1, #]",
           "Calculated magnitude: #",
           "Spectral score resolved: #" >>,
        << createLog("Analysis: Zeta convergence engine engaged for t=#", "info"),
           createLog("Score resolved: #", "success") >>))

\* the pairs matched by /\((-?\d+)\s*,\s*(-?\d+)\)/g, in text order
RECURSIVE allPoints(_)
allPoints(p) ==
    IF p = <<>> THEN <<>>
    ELSE (IF Head(p).w = QuadraticForm
          THEN << <<Head(p).a[3], Head(p).a[4]>>, <<Head(p).a[5], Head(p).a[6]>> >>
          ELSE <<>>) \o allPoints(Tail(p))

\* a getPolynomialAt that divides in integers instead of Fractions
getPolynomialAt_truncating(a, x1, y1, x2, y2, tx) ==
    LET r1 == y1 - a * x1 * x1
        r2 == y2 - a * x2 * x2
        b  == (r1 - r2) \div (x1 - x2)
        c  == r1 - b * x1
    IN  IF x1 = x2 THEN Fraction_of(0)
        ELSE Fraction_of(a * tx * tx + b * tx + c)

\* a getPolynomialAt without the test x1 === x2
getPolynomialAt_unguarded(a, x1, y1, x2, y2, tx) ==
    LET r1 == Fraction_of(y1 - a * x1 * x1)
        r2 == Fraction_of(y2 - a * x2 * x2)
        b  == Fraction_div(Fraction_sub(r1, r2).value, Fraction_of(x1 - x2)).value
        c  == Fraction_sub(r1, Fraction_mul(b, Fraction_of(x1)).value).value
        quadPart == Fraction_of(a * tx * tx)
        linPart  == Fraction_mul(b, Fraction_of(tx)).value
    IN  Fraction_add(Fraction_add(quadPart, linPart).value, c).value

getPolynomialAt(a, x1, y1, x2, y2, tx) ==
    LET r1 == Fraction_of(y1 - a * x1 * x1)
        r2 == Fraction_of(y2 - a * x2 * x2)
        b  == Fraction_div(Fraction_sub(r1, r2).value, Fraction_of(x1 - x2)).value
        c  == Fraction_sub(r1, Fraction_mul(b, Fraction_of(x1)).value).value
        quadPart == Fraction_of(a * tx * tx)
        linPart  == Fraction_mul(b, Fraction_of(tx)).value
    IN  IF x1 = x2 THEN Fraction_of(0)
        ELSE Fraction_add(Fraction_add(quadPart, linPart).value, c).value

solvePolynomial(p) ==
    LET coeffMatch  == matchGroups({QuadraticForm}, p)
        points      == allPoints(p)
        targetMatch == match("find p(#)" :> 1, p)
        targetX     == IF targetMatch # <<>> THEN targetMatch[1] ELSE 0
    IN  IF ~includes(p, "quadratic") /\ ~includes(p, "polynomial") THEN Null
        ELSE IF coeffMatch = <<>> \/ Len(points) < 2 THEN Null
        ELSE LET x1 == points[1][1]   y1 == points[1][2]
                 x2 == points[2][1]   y2 == points[2][2]
                 pVal == getPolynomialAt(coeffMatch[1], x1, y1, x2, y2, targetX)
                 qVal == getPolynomialAt(coeffMatch[2], x1, y1, x2, y2, targetX)
                 total == Fraction_add(pVal, qVal).value
                 floor == total.numerator \div total.denominator
             IN  Return(SolverResult(
                     Num(JsRem(floor, modulo)),
                     InvariantType_member("POLYNOMIAL"),
                     << "Mapping quadratic coefficients #, #",
                        "Evaluating interpolation points (#, #), (#, #)",
                        "P(#) = #",
                        "Q(#) = #",
                        "Resulting sum: #" >>,
                     << createLog("Analysis: Polynomial reduction resolved at x=#", "info"),
                        createLog("Evaluation successful.", "success") >>))

\* the two groups ([+-]\s*\d*) of the quadratic in a fragment, white space
\* removed: a sign and the digits after it, <<>> when there are none
quadraticGroups(f) ==
    CASE f.w \in {RootSumForm, RootSquaresForm, RootProductForm} ->
             << [sign |-> "+", digits |-> << f.a[1] >>],
                [sign |-> "+", digits |-> << f.a[2] >>] >>
      [] f.w = RootSumMinusForm ->
             << [sign |-> "-", digits |-> << f.a[1] >>],
                [sign |-> "+", digits |-> << f.a[2] >>] >>
      [] f.w = RootSquaresMinusForm ->
             << [sign |-> "-", digits |-> << f.a[1] >>],
                [sign |-> "-", digits |-> << f.a[2] >>] >>
      [] f.w = RootSumBareForm ->
             << [sign |-> "-", digits |-> <<>>], [sign |-> "+", digits |-> << f.a[1] >>] >>
      [] f.w = RootSquaresBareForm ->
             << [sign |-> "+", digits |-> <<>>], [sign |-> "-", digits |-> << f.a[1] >>] >>
      [] OTHER -> <<>>

\* problem.match(/x\^2\s*([+-]\s*\d*)\s*x\s*([+-]\s*\d*)\s*=\s*0/i)
quadraticMatch(p) ==
    LET hits == { i \in DOMAIN p : quadraticGroups(p[i]) # <<>> }
    IN  IF hits = {} THEN <<>> ELSE quadraticGroups(p[Min(hits)])

\* parseInt of a sign followed by digits (every form here has digits where
\* parseInt is applied)
parseInt(str) == IF str.sign = "-" THEN -str.digits[1] ELSE str.digits[1]

\* a coefficient of x that reads a bare sign as no x term
coefficientB_bareZero(bStr) == IF bStr.digits = <<>> THEN 0 ELSE parseInt(bStr)

\* bStr === '+' ? 1 : bStr === '-' ? -1 : (bStr === '' ? 0 : parseInt(bStr))
coefficientB(bStr) ==
    IF bStr.digits = <<>> THEN (IF bStr.sign = "+" THEN 1 ELSE -1) ELSE parseInt(bStr)

solveRootDynamics(p) ==
    LET polyMatch == quadraticMatch(p)
        b  == coefficientB(polyMatch[1])
        c  == parseInt(polyMatch[2])
        e1 == -b
        e2 == c
        sumSquares == e1 * e1 - 2 * e2
    IN  IF ~includes(p, "root") THEN Null
        ELSE IF polyMatch = <<>> THEN Null
        ELSE IF includes(p, "sum of the roots")
        THEN Return(SolverResult(
                 Num(e1), InvariantType_member("ROOT_DYNAMICS"),
                 << "Quadratic: x^2 + #x + # = 0", "Vieta Identity: sum r = -b/a = #" >>,
                 << createLog("Analysis: Vieta's identity applied.", "info") >>))
        ELSE IF includes(p, "sum of the squares")
        THEN Return(SolverResult(
                 Num(sumSquares), InvariantType_member("ROOT_DYNAMICS"),
                 << "Quadratic: x^2 + #x + # = 0",
                    "Newton's Sum Identity: sum r^2 = (sum r)^2 - 2 sum r1 r2",
                    "Calculation: #^2 - 2(#) = #" >>,
                 << createLog("Analysis: Newton sums applied.", "info") >>))
        ELSE Null

solveSequences(p) ==
    LET arithMatch == matchGroups({ArithmeticForm}, p)
        a == arithMatch[1]
        d == arithMatch[2]
        n == arithMatch[3]
    IN  IF ~includes(p, "progression") /\ ~includes(p, "arithmetic series")
           /\ ~includes(p, "geometric series")
        THEN Null
        ELSE IF arithMatch # <<>>
        \* (n / 2) * (2 * a + (n - 1) * d)
        THEN Return(SolverResult(
                 Halves(n * (2 * a + (n - 1) * d)),
                 InvariantType_member("SEQUENCES"),
                 << "Arithmetic Progression: a=#, d=#, n=#",
                    "Sum Formula: n/2 * (2a + (n-1)d)",
                    "Result: #" >>,
                 << createLog("Analysis: Sequence summation complete.", "info") >>))
        ELSE Null

solveFunctionalEq(p) ==
    LET targetMatch == match(CauchyForm :> 1, p) IN
    IF includes(p, "f(m)") /\ includes(p, "f(n)") /\ includes(p, "f(m + n + mn)")
       /\ targetMatch # <<>>
    THEN Return(SolverResult(
             Str("c * log(" \o ToString(targetMatch[1] + 1) \o ")"),
             InvariantType_member("FUNCTIONAL_EQ"),
             << "Shifted Cauchy equation identified",
                "Substitution: g(x) = f(x-1)",
                "Logarithmic solution space detected for x+1" >>,
             << createLog("Analysis: Cauchy mapping complete.", "info") >>))
    ELSE Null

\* while (temp % i === 0) temp /= i;
RECURSIVE stripFactor(_, _)
stripFactor(temp, i) == IF temp % i = 0 THEN stripFactor(temp \div i, i) ELSE temp

\* the loop without the step for the prime factor that is left over
RECURSIVE totientLoop_untailed(_, _, _)
totientLoop_untailed(i, temp, result) ==
    IF i * i <= temp
    THEN IF temp % i = 0
         THEN totientLoop_untailed(i + 1, stripFactor(temp, i), result - (result \div i))
         ELSE totientLoop_untailed(i + 1, temp, result)
    ELSE result

\* for (let i = 2; i * i <= temp; i++) {...}; if (temp > 1) result -= ...
RECURSIVE totientLoop(_, _, _)
totientLoop(i, temp, result) ==
    IF i * i <= temp
    THEN IF temp % i = 0
         THEN totientLoop(i + 1, stripFactor(temp, i), result - (result \div i))
         ELSE totientLoop(i + 1, temp, result)
    ELSE IF temp > 1 THEN result - (result \div temp) ELSE result

solveNumberTheory(p) ==
    LET binomialMatch == matchGroups({BinomialForm}, p)
        nMatch == firstDigits(p)
    IN  IF binomialMatch # <<>>
        THEN LET ans == lucas(binomialMatch[1], binomialMatch[2], binomialMatch[3])
             \* lucas recurses without end for k > 0 and p <= 1: RangeError
             IN  IF ans.thrown THEN Thrown
                 ELSE Return(SolverResult(
                          Num(ans.val),
                          InvariantType_member("NUMBER_THEORY"),
                          << "Applying Lucas Theorem for n=#, k=#, mod #",
                             "Base-# decomposition successful",
                             "Modular congruence: #" >>,
                          << createLog("Analysis: Modular binomial reduction completed.",
                                       "info") >>))
        ELSE IF (includes(p, "totient") \/ includes(p, "phi")
                 \/ (includes(p, "relatively prime") /\ includes(p, "less than")))
                /\ nMatch # <<>>
        THEN Return(SolverResult(
                 Num(totientLoop(2, nMatch[1], nMatch[1])),
                 InvariantType_member("NUMBER_THEORY"),
                 << "Euler Totient analysis for n=#",
                    "Prime factorization complete",
                    "phi(#) = #" >>,
                 << createLog("Analysis: Eulerian totient calculated.", "info") >>))
        ELSE Null

\* a filter without the lower limit
IsCoeff_any(n) == n <= 500

\* nums.filter(n => n >= 2 && n <= 500)
IsCoeff(n) == n >= 2 /\ n <= 500

solveDiophantine(p) ==
    LET coeffs == SelectSeq(wordNumbers(p), IsCoeff)
        a == coeffs[1]
        b == coeffs[2]
        result == (a * b) - a - b
    IN  IF ~some({"largest integer", "cannot be written", "cannot be expressed",
                  "impossible sum", "chicken mcnugget", "frobenius"}, p)
        THEN Null
        ELSE IF Len(coeffs) < 2 THEN Null
        ELSE IF gcd(a, b) # 1
        THEN Return(SolverResult(
                 Str("Infinity"), InvariantType_member("DIOPHANTINE"),
                 << "Gaps are infinite for non-coprime generators #, #" >>,
                 << createLog("Analysis: Non-coprime boundary detected.", "info") >>))
        ELSE Return(SolverResult(
                 Num(JsRem(result, modulo)),
                 InvariantType_member("DIOPHANTINE"),
                 << "Applying Frobenius identity for {#, #}",
                    "G(a,b) = ab - a - b",
                    "Outcome: #" >>,
                 << createLog("Analysis: Diophantine boundary resolved.", "info"),
                    createLog("Calculation complete.", "success") >>))

solveCombinatorial(p) ==
    LET nMatch == match(("s_#" :> 1) @@ ("n=#" :> 1), p)
        n == nMatch[1]
    IN  IF ~some({"subset", "intersect", "s_n", "ordered pair", "set s", "power set",
                  "inclusion-exclusion", "principle of inclusion",
                  "collection of sets"}, p)
        THEN Null
        ELSE IF nMatch = <<>> THEN Null
        \* 4n ** BigInt(n - 1) raises RangeError for a negative exponent
        ELSE IF n - 1 < 0 THEN Thrown
        ELSE Return(SolverResult(
                 Num((n * (4 ^ (n - 1))) % modulo),
                 InvariantType_member("COMBINATORIAL"),
                 << "Subset intersection identity applied for n=#",
                    "Identity sum |A n B| = n * 4^(n-1)",
                    "Result: #" >>,
                 << createLog("Analysis: Combinatorial identity verified.", "info"),
                    createLog("Result mapped to modulo space.", "success") >>))

solveGeometric(p) ==
    LET vMatch == match("polyhedron with # vertices" :> 1, p)
        eMatch == match(("# edges" :> 1) @@ ("polyhedron with # edges" :> 1), p)
        fMatch == match("# faces" :> 1, p)
        iMatch == match("# interior lattice points" :> 1, p)
        bMatch == match("# boundary" :> 1, p)
        euler  == includes(p, "polyhedron") \/ includes(p, "convex polyhedron")
                  \/ (includes(p, "vertices") /\ includes(p, "edges")
                      /\ includes(p, "faces"))
        eulerSteps == << "Euler Characteristic: V - E + F = 2", "V=#, #=#",
                         "Solving for #: # = #" >>
        eulerLogs  == << createLog("Analysis: Euler characteristic applied.", "info") >>
    IN  IF euler /\ vMatch # <<>> /\ eMatch # <<>> /\ fMatch = <<>>
        THEN Return(SolverResult(Num(2 - vMatch[1] + eMatch[1]),
                                 InvariantType_member("GEOMETRIC"),
                                 eulerSteps, eulerLogs))
        ELSE IF euler /\ vMatch # <<>> /\ fMatch # <<>> /\ eMatch = <<>>
        THEN Return(SolverResult(Num(vMatch[1] + fMatch[1] - 2),
                                 InvariantType_member("GEOMETRIC"),
                                 eulerSteps, eulerLogs))
        ELSE IF (includes(p, "lattice points") \/ includes(p, "grid points")
                 \/ includes(p, "pick's theorem"))
                /\ iMatch # <<>> /\ bMatch # <<>>
        \* i + (b / 2) - 1
        THEN Return(SolverResult(
                 Halves(2 * iMatch[1] + bMatch[1] - 2),
                 InvariantType_member("GEOMETRIC"),
                 << "Pick's Theorem: Area = I + B/2 - 1", "Interior points (I) = #",
                    "Boundary points (B) = #", "Area = # + #/2 - 1 = #" >>,
                 << createLog("Analysis: Pick's theorem applied.", "info") >>))
        ELSE Null

(***************************************************************************)
(* AxiomPrimeSolver: the Network B evaluators                              *)
(* (src/src/utils/axiom-prime-solver.ts, lines 434-833).  Their answers    *)
(* are decimal strings of floating-point values: an answer is recorded as  *)
(* the expression the code formats, the conditions that decide between     *)
(* null and a result are the code's.                                       *)
(***************************************************************************)
\* a regular expression that no form of the problem text matches
NoForm == <<>>

\* /tau\s*=\s*([0-9.]+)|.../i
tauForm == "tau=#" :> 1

\* /pool\s*(\d+)|n\s*=\s*(\d+)|.../i
poolForm ==
    ("unlock pool #" :> 1) @@ ("pool #" :> 1) @@ ("dimensional scale for pool #" :> 1)
        @@ ("n=#" :> 1)

\* const tauValues = [0.00, 0.20, 0.41, 0.68, 0.98, 1.36, 1.96, 2.72], in hundredths
tauValues == <<0, 20, 41, 68, 98, 136, 196, 272>>

\* a tau that reads the table one entry further on
dimensionalTau_shifted(p) ==
    LET poolMatch == match(poolForm, p)
        tauMatch  == match(tauForm, p)
        poolNum   == IF poolMatch # <<>> THEN poolMatch[1] ELSE 1
    IN  IF tauMatch # <<>> THEN 100 * tauMatch[1]
        ELSE IF poolNum >= 1 /\ poolNum <= 7 THEN tauValues[poolNum + 1] ELSE 0

\* the tau of solveDimensionalScale, in hundredths:
\* tauMatch ? parseFloat(...) : (poolNum >= 1 && poolNum <= 8 ? tauValues[poolNum - 1] : 0)
dimensionalTau(p) ==
    LET poolMatch == match(poolForm, p)
        tauMatch  == match(tauForm, p)
        poolNum   == IF poolMatch # <<>> THEN poolMatch[1] ELSE 1
    IN  IF tauMatch # <<>> THEN 100 * tauMatch[1]
        ELSE IF poolNum >= 1 /\ poolNum <= 8 THEN tauValues[poolNum] ELSE 0

solveDimensionalScale(p) ==
    LET poolMatch == match(poolForm, p)
        tauMatch  == match(tauForm, p)
    IN  IF ~some({"dimensional scale", "pool scale", "d_n", "exponential scale",
                  "scale factor"}, p)
        THEN Null
        ELSE IF poolMatch = <<>> /\ tauMatch = <<>> THEN Null
        ELSE Return(SolverResult(
                 Str("D_n.toFixed(6)"),
                 InvariantType_member("DIMENSIONAL_SCALE"),
                 << "Dimensional scale formula: D_n(tau) = e^(-eta tau_n)",
                    "Pool n=#, tau=#",
                    "eta = # (Satoshi constant)",
                    "D_# = e^(-# x #)",
                    "D_# = #" >>,
                 << createLog("Analysis: Dimensional scale computation for pool #", "info"),
                    createLog("Result: D_# = #", "success") >>))

\* a consensus-state evaluator that takes tau = 0 when the text gives none
solveConsensusState_defaulting(p) ==
    IF ~some({"consensus state", "psi", "magnitude", "phase", "consensus dynamics"}, p)
    THEN Null
    ELSE Return(SolverResult(
             Str("magnitude.toFixed(6)"),
             InvariantType_member("CONSENSUS_STATE"),
             << "Consensus state: psi(tau) = e^(-eta tau) e^(i lambda tau)" >>,
             << createLog("Analysis: Consensus state dynamics at tau=#", "info") >>))

solveConsensusState(p) ==
    LET tauMatch == match(tauForm, p) IN
    IF ~some({"consensus state", "psi", "magnitude", "phase", "consensus dynamics"}, p)
    THEN Null
    ELSE IF tauMatch = <<>> THEN Null
    ELSE Return(SolverResult(
             Str("magnitude.toFixed(6)"),
             InvariantType_member("CONSENSUS_STATE"),
             << "Consensus state: psi(tau) = e^(-eta tau) e^(i lambda tau)",
                "tau = #",
                "eta = lambda = #",
                "Magnitude: |psi(tau)| = e^(-eta tau) = #",
                "Phase: theta(tau) = lambda tau = # radians",
                "Phase in degrees: #" >>,
             << createLog("Analysis: Consensus state dynamics at tau=#", "info"),
                createLog("Magnitude: #, Phase: # rad", "success") >>))

solveUnlockSchedule(p) ==
    LET poolMatch == match(poolForm, p)
        tauMatch  == match(tauForm, p)
    IN  IF ~some({"unlock", "unlock schedule", "u_n", "fraction unlocked", "vesting"}, p)
        THEN Null
        ELSE IF poolMatch = <<>> \/ tauMatch = <<>> THEN Null
        ELSE Return(SolverResult(
                 Str("U_n.toFixed(6)"),
                 InvariantType_member("UNLOCK_SCHEDULE"),
                 << "Unlock schedule: U_n(tau) = 1 - e^(-eta(tau - tau_n)) for tau >= tau_n",
                    "Pool n=#, tau_n=#, current tau=#",
                    "eta = #",
                    "#",
                    "Fraction unlocked: #%" >>,
                 << createLog("Analysis: Unlock schedule for pool # at tau=#", "info"),
                    createLog("#% unlocked", "success") >>))

solveVivianiOracle(p) ==
    IF ~some({"viviani", "oracle", "delta", "network health", "equilibrium distance"}, p)
    THEN Null
    ELSE Return(SolverResult(
             Str("delta.toFixed(6)"),
             InvariantType_member("VIVIANI_ORACLE"),
             << "Viviani Oracle: D = (d1 + d2 + d3) / (sqrt(3)/2) - 1",
                "Point: (#, #)",
                "Distance to sides: d1=#, d2=#, d3=#",
                "Sum of distances: #",
                "D = #",
                "Network regime: #",
                "Critical D = #, Oracle D = #" >>,
             << createLog("Analysis: Viviani oracle computation", "info"),
                createLog("D = # (#)", "isOptimal ? 'success' : 'warning'") >>))

\* psiMatch ? ... : 0.8, halvingMatch ? ... : 0, baseMatch ? ... : 50; no form
\* of the problem text matches psi=, halving=/epoch= or base=
emissionParameters(p) ==
    LET psiMatch     == match(NoForm, p)
        halvingMatch == match(NoForm, p)
        baseMatch    == match(NoForm, p)
    IN  [psiMagnitude |-> IF psiMatch # <<>> THEN "psiMatch" ELSE "0.8",
         halvings     |-> IF halvingMatch # <<>> THEN "halvingMatch" ELSE "0",
         baseEmission |-> IF baseMatch # <<>> THEN "baseMatch" ELSE "50"]

solveEmissionRate(p) ==
    IF ~some({"emission", "emission rate", "block reward", "mining reward"}, p)
    THEN Null
    ELSE Return(SolverResult(
             Str("emission.toFixed(6)"),
             InvariantType_member("EMISSION_RATE"),
             << "Emission formula: emission(t) = eta |psi(t)| base_emission / (2^halvings)",
                "eta = #",
                "|psi(t)| = #",
                "Base emission = #",
                "Halvings = #",
                "Emission = # x # x # / #",
                "Emission = # tokens/block" >>,
             << createLog("Analysis: Dynamic emission calculation", "info"),
                createLog("Emission rate: # tokens/block", "success") >>))

\* a / b on non-negative Numbers, by class: "NaN", "Infinity", "zero", "positive"
jsQuotient(a, b) ==
    IF b = 0 THEN (IF a = 0 THEN "NaN" ELSE "Infinity")
    ELSE IF a = 0 THEN "zero" ELSE "positive"

\* the first match of each expression of solveReputationScore.  /stake\s*=/
\* and /age\s*=/ also match inside "median stake=" and "median age="; the
\* expressions for faults and bonus match no form of the problem text.
reputationParameters(p) ==
    LET stakeMatch       == match(("reputation median stake=#" :> 1)
                                  @@ ("reputation stake=#, median stake=#" :> 1)
                                  @@ ("reputation median stake=#, stake=#" :> 1), p)
        medianStakeMatch == match(("reputation median stake=#" :> 1)
                                  @@ ("reputation stake=#, median stake=#" :> 2)
                                  @@ ("reputation median stake=#, stake=#" :> 1), p)
        ageMatch         == match(("median age=#" :> 1)
                                  @@ ("age=#, median age=#" :> 1)
                                  @@ ("median age=#, age=#" :> 1), p)
        medianAgeMatch   == match(("median age=#" :> 1)
                                  @@ ("age=#, median age=#" :> 2)
                                  @@ ("median age=#, age=#" :> 1), p)
        faultsMatch      == match(NoForm, p)
        bonusMatch       == match(NoForm, p)
    IN  [stake |-> stakeMatch, medianStake |-> medianStakeMatch,
         age |-> ageMatch, medianAge |-> medianAgeMatch,
         faults |-> IF faultsMatch # <<>> THEN faultsMatch ELSE <<0>>,
         bonus  |-> IF bonusMatch # <<>> THEN bonusMatch ELSE <<0>>]

\* Math.log2(1 + stake / medianStake) / Math.log2(this.PHI * this.PHI), by class
S_ratio(stake, medianStake) == jsQuotient(stake, medianStake)

\* 1 - Math.exp(-this.ETA * (age / medianAge)), by class: Math.exp(-Infinity) is 0
T_ratio(age, medianAge) ==
    IF jsQuotient(age, medianAge) = "Infinity" THEN "positive"
    ELSE jsQuotient(age, medianAge)

\* (S_ratio * T_ratio * (1 + bonus)) / (1 + faults), by class; bonus and
\* faults are not negative, and Infinity * 0 is NaN
reputation(S, T) ==
    IF S = "NaN" \/ T = "NaN" THEN "NaN"
    ELSE IF S = "Infinity" THEN (IF T = "zero" THEN "NaN" ELSE "Infinity")
    ELSE IF S = "zero" \/ T = "zero" THEN "zero"
    ELSE "positive"

solveReputationScore(p) ==
    LET q == reputationParameters(p)
        score == reputation(S_ratio(q.stake[1], q.medianStake[1]),
                            T_ratio(q.age[1], q.medianAge[1]))
    IN  IF ~some({"reputation", "reputation score", "node score", "peer reputation"}, p)
        THEN Null
        ELSE IF q.stake = <<>> \/ q.medianStake = <<>>
                \/ q.age = <<>> \/ q.medianAge = <<>>
        THEN Null
        ELSE Return(SolverResult(
                 \* reputation.toFixed(6)
                 (IF score \in {"NaN", "Infinity"} THEN Str(score)
                  ELSE Str("reputation.toFixed(6)")),
                 InvariantType_member("REPUTATION_SCORE"),
                 << "Reputation: R = (S_ratio x T_ratio x (1 + bonus)) / (1 + E_weighted)",
                    "S_ratio = log2(1 + #/#) / log2(phi^2) = #",
                    "T_ratio = 1 - e^(-eta x #/#) = #",
                    "Bonus = #, Faults = #",
                    "R = (# x # x #) / #",
                    "Reputation = #" >>,
                 << createLog("Analysis: Reputation score calculation", "info"),
                    createLog("Reputation: #", "success") >>))

solveStakingMultiplier(p) ==
    LET sharesMatch == match("share1=#" :> 1, p) IN
    IF ~some({"staking multiplier", "diversification multiplier",
              "viviani multiplier"}, p)
    THEN Null
    ELSE IF sharesMatch = <<>> THEN Null
    ELSE Return(SolverResult(
             Str("multiplier.toFixed(6)"),
             InvariantType_member("STAKING_MULTIPLIER"),
             << "Staking multiplier: M = 1 + (lambda x coverage x D_critical)",
                "Shares: #",
                "HHI = sum(share^2) = #",
                "lambda = 1 - HHI = #",
                "Coverage = #",
                "D_critical = #",
                "M = 1 + (# x # x #)",
                "Multiplier = #" >>,
             << createLog("Analysis: Staking multiplier via Viviani oracle", "info"),
                createLog("Multiplier: #x", "success") >>))

solveBurnRate(p) ==
    LET workMatch   == match("burn rate work=#" :> 1, p)
        supplyMatch == match("supply=#" :> 1, p)
    IN  IF ~some({"burn rate", "deflation rate", "burn amount"}, p) THEN Null
        ELSE IF workMatch = <<>> \/ supplyMatch = <<>> THEN Null
        ELSE Return(SolverResult(
                 Str("burnRate.toFixed(8)"),
                 InvariantType_member("BURN_RATE"),
                 << "Burn rate: burn_rate = lambda cumulative_work / circulating_supply",
                    "lambda = #",
                    "Cumulative work = #",
                    "Circulating supply = #",
                    "Burn rate = # x # / #",
                    "Burn rate = #" >>,
                 << createLog("Analysis: Burn rate calculation", "info"),
                    createLog("Burn rate: #", "success") >>))

(***************************************************************************)
(* AxiomPrimeSolver: the prime-spectral evaluators and the metallic-ratio  *)
(* evaluator (src/src/utils/axiom-prime-solver.ts, lines 854-1376)         *)
(***************************************************************************)
\* /t\s*=\s*([0-9.]+)/i and its variants with a second alternative
tForm == "t=#" :> 1

solveHardyZ(p) ==
    LET tMatch == match(tForm, p) IN
    IF ~some({"hardy z", "z-function", "z(t)", "hardy function"}, p) THEN Null
    ELSE IF tMatch = <<>> THEN Null
    ELSE Return(SolverResult(
             Str("Z_t.toFixed(8)"),
             InvariantType_member("HARDY_Z_FUNCTION"),
             << "Hardy Z-function: Z(t) = e^(i theta(t)) zeta(1/2 + it)",
                "Computing at t = #",
                "theta(t) = #",
                "Partial sum limit: n <= #",
                "Z(#) = #",
                "Real-valued confirmation: Z(t) is real on critical line" >>,
             << createLog("Analysis: Hardy Z-function at t=#", "info"),
                createLog("Z(#) = #", "success") >>))

\* Math.floor((T / (2 * Math.PI)) * Math.log(T / (2 * Math.PI * Math.E)) + 7 / 8)
\* for an integer T below 18; 0 * Math.log(0) is NaN
N_rounded(T) ==
    CASE T = 0        -> NaN
      [] T \in 1..3   -> Num(0)
      [] T \in 4..9   -> Num(-1)
      [] T \in 10..17 -> Num(0)

solveSpectralLoad(p) ==
    LET TMatch == match(tForm, p) IN
    IF ~some({"spectral load", "zero count", "n(t)", "zeros up to"}, p) THEN Null
    ELSE IF TMatch = <<>> THEN Null
    ELSE Return(SolverResult(
             N_rounded(TMatch[1]),
             InvariantType_member("SPECTRAL_LOAD"),
             << "Spectral Load Formula: N(T) = (T/(2 pi)) log(T/(2 pi e)) + 7/8",
                "Computing for T = #",
                "N(#) = #",
                "Rounded count: # zeros",
                "Average spacing: #" >>,
             << createLog("Analysis: Zero counting up to T=#", "info"),
                createLog("Approximately # zeros on critical line", "success") >>))

solvePsiStability(p) ==
    IF ~some({"psi stability", "phase drift", "cosine stability",
              "stability monitor"}, p)
    THEN Null
    ELSE Return(SolverResult(
             Str("cosineStability.toFixed(6)"),
             InvariantType_member("PSI_STABILITY"),
             << "psi-Stability Monitor: cosine_stability = cos(theta + drift)",
                "t = #, theta(t) = #",
                "Phase drift = #",
                "Total phase = #",
                "cos(phase) = #",
                "Threshold = eta - 0.5 = #",
                "Status: #" >>,
             << createLog("Analysis: psi-stability at t=#", "info"),
                createLog("Stability: # (#)", "isStable ? 'success' : 'warning'") >>))

solveQuantumFallback(p) ==
    LET sigmaMatch == match(NoForm, p)
        \* sigma is 0.6 unless the text gives one: Math.abs(sigma - 0.5) > 0.001
        isOffLine  == sigmaMatch = <<>>
    IN  IF ~some({"quantum fallback", "fallback protocol", "off-line correction",
                  "critical line correction"}, p)
        THEN Null
        ELSE IF isOffLine
        THEN Return(SolverResult(
                 Str("0.500"),
                 InvariantType_member("QUANTUM_FALLBACK"),
                 << "Quantum Fallback Protocol ACTIVATED",
                    "Initial state: sigma = #, t = #, E = #",
                    "Off-line detected: |sigma - 0.5| = # > 0.001",
                    "Correction applied:",
                    "  sigma_new = 0.5 (pinned to critical line)",
                    "  t_new = t x eta = # x # = #",
                    "  E_new = E x eta = # x # = #",
                    "Energy dissipated: dE = #",
                    "System restored to equilibrium" >>,
                 << createLog("ALERT: Off-line state detected at sigma=#", "warning"),
                    createLog("Quantum fallback executed: sigma -> 0.5", "success"),
                    createLog("eta-damping applied: t -> #", "success") >>))
        ELSE Return(SolverResult(
                 Str("sigma.toFixed(3)"),
                 InvariantType_member("QUANTUM_FALLBACK"),
                 << "Quantum Fallback Protocol: MONITORING",
                    "Current state: sigma = #, t = #, E = #",
                    "On-line check: |sigma - 0.5| = # <= 0.001",
                    "Status: ON CRITICAL LINE",
                    "No correction needed" >>,
                 << createLog("System check: sigma = #", "info"),
                    createLog("On critical line - equilibrium maintained", "success") >>))

solvePrimeSpectralEngine(p) ==
    IF ~some({"prime spectral", "rh equilibrium", "riemann hypothesis",
              "spectral engine", "prove rh", "solve rh"}, p)
    THEN Null
    ELSE Return(SolverResult(
             Str("equilibriumLocked ? 'RH EQUILIBRIUM LOCKED' : 'CONVERGING TO EQUILIBRIUM'"),
             InvariantType_member("RH_EQUILIBRIUM"),
             << "-----", "AXIOMPRIME PROTOCOL V2 - PRIME-SPECTRAL ENGINE", "-----", "",
                "STEP 1: Initialize eta-Flow", "  eta = # (Quantum Governor)",
                "  Critical line: Re(s) = 1/2", "",
                "STEP 2: Compute Spectral Load", "  T = #", "  N(#) = # zeros",
                "  Count: # zeros on critical line", "",
                "STEP 3: Monitor psi-Stability", "  theta(#) = #",
                "  cosine_stability = #", "  Threshold = #", "  Status: #", "",
                "STEP 4: Quantum Fallback", "  sigma = # (ON CRITICAL LINE)",
                "  Fallback: #", "",
                "STEP 5: Verify Viviani D", "  D_critical = #",
                "  Constraint preserved", "",
                "STEP 6: Convergence Metrics", "  SPECTRAL_ZETA = #", "  Entropy = #",
                "  Equilibrium: #", "",
                "-----", "CONCLUSION: #", "-----", "",
                "The zeros remain on Re(s)=1/2 because this is",
                "the only dynamically stable state. Off-line",
                "zeros trigger infinite entropy growth and are",
                "immediately corrected by eta-governor fallback.", "",
                "Network Status: #", "Governor: #" >>,
             << createLog("=====", "info"),
                createLog("PRIME-SPECTRAL ENGINE INITIATED", "info"),
                createLog("=====", "info"),
                createLog("Spectral load: # zeros at T=#", "info"),
                createLog("psi-stability: # (#)", "isStable ? 'success' : 'warning'"),
                createLog("Critical line: sigma = 0.5 maintained", "success"),
                createLog("Viviani D = # preserved", "success"),
                createLog("SPECTRAL_ZETA = #", "info"),
                createLog("Entropy: # #", "entropy < 0.1 ? 'success' : 'warning'"),
                createLog("-----", "info"),
                createLog("RH EQUILIBRIUM: #", "equilibriumLocked ? 'success' : 'info'"),
                createLog("=====", "info") >>))

solveMetallicRatioEquilibrium(p) ==
    LET nMatch == match("n=#" :> 1, p)
        n      == IF nMatch # <<>> THEN nMatch[1] ELSE 3
        steps  ==
            << "-----", "UNIVERSAL METALLIC-RATIO EQUILIBRIUM", "-----", "",
               "STEP 1: Metallic Ratio", "  Order m = # (#)",
               "  rho = (# + sqrt(#^2 + 4))/2", "  rho = #", "",
               "STEP 2: Scaling Factor kappa", "  Manifold: #", "  Constraint: # = #",
               "  kappa = #", "",
               "STEP 3: Equilibrium Components", "  Formula: x_k = kappa rho^(-(k-1))",
               "" >>
            \o [k \in 1..n |-> "  # = #"]
            \o << "", "-----", "VERIFICATION", "-----", "  # = #", "  Target = #",
                  "  Error = #", "  Status: #" >>
        logs   ==
            << createLog("-----", "info"),
               createLog("METALLIC-RATIO EQUILIBRIUM SOLVER", "info"),
               createLog("-----", "info"),
               createLog("# (rho = #) on #", "info"),
               createLog("Dimension n = #", "info") >>
            \o [k \in 1..n |-> createLog("  # = #", "success")]
            \o << createLog("Constraint verification: # = #", "success"),
                  createLog("Equilibrium established", "success") >>
        \* components.map(...).join(', ') is the empty string for no component
        answer == IF n = 0 THEN Str("") ELSE Str("components.map(...).join(', ')")
    IN  IF ~some({"metallic ratio", "golden ratio", "silver ratio", "bronze ratio",
                  "simplex equilibrium", "sphere equilibrium", "metallic equilibrium"}, p)
        THEN Null
        \* InvariantType has no member METALLIC_RATIO
        ELSE Return(SolverResult(answer, InvariantType_member("METALLIC_RATIO"),
                                 steps, logs))

(***************************************************************************)
(* Spec: AxiomPrimeSolver.solve                                            *)
(* (src/src/utils/axiom-prime-solver.ts, lines 1381-1430).  One step of    *)
(* the model is one pass of the loop over `solvers`; idx is the position   *)
(* of the evaluator tried next, and it stays on the evaluator whose        *)
(* result was returned.                                                    *)
(***************************************************************************)
\* the list with its first two evaluators exchanged
solvers_exchanged ==
    << "solvePolynomial", "solveSpectralZeta", "solveNumberTheory",
       "solveCombinatorial", "solveDiophantine", "solveGeometric",
       "solveSequences", "solveRootDynamics", "solveFunctionalEq",
       "solveDimensionalScale", "solveConsensusState", "solveUnlockSchedule",
       "solveVivianiOracle", "solveEmissionRate", "solveReputationScore",
       "solveStakingMultiplier", "solveBurnRate",
       "solvePrimeSpectralEngine", "solveHardyZ", "solveSpectralLoad",
       "solvePsiStability", "solveQuantumFallback",
       "solveMetallicRatioEquilibrium" >>

\* a catch block that rethrows
catch_rethrow == "rethrow"

\* a no-match result without its log entry
noMatch_silent ==
    SolverResult(Num(0), "null", << "No deterministic invariant found." >>, <<>>)

solvers ==
    << "solveSpectralZeta", "solvePolynomial", "solveNumberTheory",
       "solveCombinatorial", "solveDiophantine", "solveGeometric",
       "solveSequences", "solveRootDynamics", "solveFunctionalEq",
       "solveDimensionalScale", "solveConsensusState", "solveUnlockSchedule",
       "solveVivianiOracle", "solveEmissionRate", "solveReputationScore",
       "solveStakingMultiplier", "solveBurnRate",
       "solvePrimeSpectralEngine", "solveHardyZ", "solveSpectralLoad",
       "solvePsiStability", "solveQuantumFallback",
       "solveMetallicRatioEquilibrium" >>

\* const result = solver();
solver(name, p) ==
    CASE name = "solveSpectralZeta"             -> solveSpectralZeta(p)
      [] name = "solvePolynomial"               -> solvePolynomial(p)
      [] name = "solveNumberTheory"             -> solveNumberTheory(p)
      [] name = "solveCombinatorial"            -> solveCombinatorial(p)
      [] name = "solveDiophantine"              -> solveDiophantine(p)
      [] name = "solveGeometric"                -> solveGeometric(p)
      [] name = "solveSequences"                -> solveSequences(p)
      [] name = "solveRootDynamics"             -> solveRootDynamics(p)
      [] name = "solveFunctionalEq"             -> solveFunctionalEq(p)
      [] name = "solveDimensionalScale"         -> solveDimensionalScale(p)
      [] name = "solveConsensusState"           -> solveConsensusState(p)
      [] name = "solveUnlockSchedule"           -> solveUnlockSchedule(p)
      [] name = "solveVivianiOracle"            -> solveVivianiOracle(p)
      [] name = "solveEmissionRate"             -> solveEmissionRate(p)
      [] name = "solveReputationScore"          -> solveReputationScore(p)
      [] name = "solveStakingMultiplier"        -> solveStakingMultiplier(p)
      [] name = "solveBurnRate"                 -> solveBurnRate(p)
      [] name = "solvePrimeSpectralEngine"      -> solvePrimeSpectralEngine(p)
      [] name = "solveHardyZ"                   -> solveHardyZ(p)
      [] name = "solveSpectralLoad"             -> solveSpectralLoad(p)
      [] name = "solvePsiStability"             -> solvePsiStability(p)
      [] name = "solveQuantumFallback"          -> solveQuantumFallback(p)
      [] name = "solveMetallicRatioEquilibrium" -> solveMetallicRatioEquilibrium(p)

\* result && (result.answer !== 0 || result.invariantUsed !== null)
accepted(o) ==
    /\ o.kind = "result"
    /\ NotZero(o.result.answer) \/ o.result.invariantUsed # "null"

\* catch (e) { continue; }
catch == "continue"

\* the value returned after the loop
noMatch ==
    SolverResult(Num(0), "null",
                 << "No deterministic invariant found." >>,
                 << createLog("Analysis: No matching solver found for the given problem.",
                              "warning") >>)

Init == (\E m \in Moduli : Constructed(m)) /\ IdleFraction /\ IdleArith

\* solve(problem) is called
Solve ==
    /\ pc = "idle"
    /\ problem' \in Texts
    /\ pc' = "loop"
    /\ idx' = 1
    /\ ret' = NoResult
    /\ UNCHANGED <<objectVars, callerVars, fracVars, arithVars>>

InLoop == pc = "loop" /\ idx <= Len(solvers)

\* an Accept that also puts the default modulus back into the solver
Accept_resetting ==
    /\ pc = "loop" /\ idx <= Len(solvers)
    /\ accepted(solver(solvers[idx], problem))
    /\ ret' = solver(solvers[idx], problem).result
    /\ pc' = "done"
    /\ modulo' = DefaultModulo
    /\ UNCHANGED <<readonly, callerVars, problem, idx, fracVars, arithVars>>

\* the evaluator's result is accepted: return result
Accept ==
    /\ InLoop
    /\ accepted(solver(solvers[idx], problem))
    /\ ret' = solver(solvers[idx], problem).result
    /\ pc' = "done"
    /\ UNCHANGED <<objectVars, callerVars, problem, idx, fracVars, arithVars>>

\* the evaluator returned null (or a result that is not accepted)
Advance ==
    /\ InLoop
    /\ solver(solvers[idx], problem).kind # "throw"
    /\ ~accepted(solver(solvers[idx], problem))
    /\ idx' = idx + 1
    /\ UNCHANGED <<objectVars, callerVars, problem, pc, ret, fracVars, arithVars>>

\* the evaluator threw: the catch block
Catch ==
    /\ InLoop
    /\ solver(solvers[idx], problem).kind = "throw"
    /\ IF catch = "continue"
       THEN idx' = idx + 1 /\ UNCHANGED <<pc, ret>>
       ELSE pc' = "raised" /\ UNCHANGED <<idx, ret>>
    /\ UNCHANGED <<objectVars, callerVars, problem, fracVars, arithVars>>

\* the loop ended without a return
Exhausted ==
    /\ pc = "loop"
    /\ idx > Len(solvers)
    /\ ret' = noMatch
    /\ pc' = "done"
    /\ UNCHANGED <<objectVars, callerVars, problem, idx, fracVars, arithVars>>

\* the caller has the result; the solver is ready for the next call
Resolved ==
    /\ pc = "done"
    /\ problem' = <<>>
    /\ pc' = "idle"
    /\ idx' = 0
    /\ ret' = NoResult
    /\ UNCHANGED <<objectVars, callerVars, fracVars, arithVars>>

Next == Solve \/ Accept \/ Advance \/ Catch \/ Exhausted \/ Resolved

Spec == Init /\ [][Next]_vars

(***************************************************************************)
(* Reference definitions used by the properties                            *)
(***************************************************************************)
Divides(d, n) == n % d = 0

\* greatest common divisor of a >= 0 and b > 0, by search
GcdRef(a, b) ==
    CHOOSE g \in 1..b :
        /\ Divides(g, a) /\ Divides(g, b)
        /\ \A h \in 1..b : Divides(h, a) /\ Divides(h, b) => h <= g

\* equality of rationals by cross-multiplication
CrossEq(x, y) == x.numerator * y.denominator = y.numerator * x.denominator

\* trial division by every d with d * d <= p (46340^2 < 2^31)
IsPrime(p) ==
    /\ p >= 2
    /\ \A d \in 2..(IF p - 1 < 46340 THEN p - 1 ELSE 46340) :
          d * d <= p => ~Divides(d, p)

\* brute-force binomial coefficient (Pascal's rule), 0 when k > n
RECURSIVE Binomial(_, _)
Binomial(n, k) ==
    IF k > n THEN 0
    ELSE IF k = 0 \/ k = n THEN 1
    ELSE Binomial(n - 1, k - 1) + Binomial(n - 1, k)

\* base^exponent mod modulus by exponent-many multiplications
RECURSIVE ModExpRef(_, _, _)
ModExpRef(b, e, m) ==
    IF e = 0 THEN 1 % m ELSE (b * ModExpRef(b, e - 1, m)) % m

(***************************************************************************)
(* Properties of solve (Spec)                                              *)
(***************************************************************************)
\* the registration order: the nine classical evaluators, the Network B
\* family, the prime-spectral family, the metallic-ratio evaluator
C1_Order ==
    << "solveSpectralZeta", "solvePolynomial", "solveNumberTheory",
       "solveCombinatorial", "solveDiophantine", "solveGeometric",
       "solveSequences", "solveRootDynamics", "solveFunctionalEq" >>
    \o << "solveDimensionalScale", "solveConsensusState", "solveUnlockSchedule",
          "solveVivianiOracle", "solveEmissionRate", "solveReputationScore",
          "solveStakingMultiplier", "solveBurnRate" >>
    \o << "solvePrimeSpectralEngine", "solveHardyZ", "solveSpectralLoad",
          "solvePsiStability", "solveQuantumFallback" >>
    \o << "solveMetallicRatioEquilibrium" >>

\* the evaluator yields a definitive result for the text
C1_Definitive(name, p) ==
    LET o == solver(name, p)
    IN  /\ o.kind = "result"
        /\ NotZero(o.result.answer) \/ o.result.invariantUsed # "null"

\* C1: evaluators are tried in the registration order, and the result solve
\* returns is the result of the earliest evaluator in that order that is
\* definitive on the text; a later evaluator's result is never returned when an
\* earlier one is definitive.
C1_PriorityOrder ==
    /\ pc = "loop" =>
          \A j \in 1..(idx - 1) : ~C1_Definitive(C1_Order[j], problem)
    /\ pc = "done" =>
          \A i \in 1..Len(C1_Order) :
              ( /\ C1_Definitive(C1_Order[i], problem)
                /\ \A j \in 1..(i - 1) : ~C1_Definitive(C1_Order[j], problem) )
              => ret = solver(C1_Order[i], problem).result

\* solve has returned for a text on which the first evaluator and a later one
\* are both definitive
C1_Witness ==
    /\ pc = "done"
    /\ problem = << Frag("critical line correction", <<>>) >>
    /\ C1_Definitive("solveSpectralZeta", problem)
    /\ C1_Definitive("solveQuantumFallback", problem)
    /\ ret.invariantUsed = "SPECTRAL_ZETA"

C2_Throws == pc = "loop" /\ idx <= Len(solvers)
             /\ solver(solvers[idx], problem).kind = "throw"
C2_NotApplicable == pc = "loop" /\ idx <= Len(solvers)
                    /\ solver(solvers[idx], problem).kind = "null"
C2_Advances == pc' = "loop" /\ idx' = idx + 1 /\ ret' = ret /\ problem' = problem

\* C2: an evaluator that throws is treated exactly like one that returned
\* not-applicable, the dispatcher advances to the next evaluator, and no
\* exception propagates out of solve.
C2_ThrowIsNotApplicable ==
    /\ [](pc \in {"idle", "loop", "done"})
    /\ [][(C2_Throws \/ C2_NotApplicable) => C2_Advances]_vars

\* solve has returned a later evaluator's result after an evaluator threw
C2_Witness ==
    /\ pc = "done"
    /\ idx <= Len(solvers)
    /\ \E j \in 1..(idx - 1) : solver(solvers[j], problem).kind = "throw"
    /\ ret = solver(solvers[idx], problem).result

\* C3: when every evaluator is not applicable to the text, solve returns the
\* canonical no-match result: answer 0, identifier null, the single step
\* "No deterministic invariant found." and one warning log entry.
C3_NoMatch ==
    ( /\ pc = "done"
      /\ \A i \in 1..Len(solvers) : solver(solvers[i], problem).kind = "null" )
    => /\ ret.answer = Num(0)
       /\ ret.invariantUsed = "null"
       /\ ret.steps = << "No deterministic invariant found." >>
       /\ Len(ret.logs) = 1
       /\ ret.logs[1].type = "warning"

\* solve has returned for a text no evaluator applies to
C3_Witness ==
    /\ pc = "done"
    /\ problem = << Frag("hello world", <<>>) >>
    /\ \A i \in 1..Len(solvers) : solver(solvers[i], problem).kind = "null"
    /\ ret.invariantUsed = "null"

\* C4: in every result solve returns, the identifier is null only if no
\* evaluator produced a result, and then the answer is 0; a result produced by
\* an evaluator carries that evaluator's own identifier, a member of
\* InvariantType, even when its answer is 0.
C4_IdentifierTellsNoMatch ==
    pc = "done" =>
        /\ ret.invariantUsed = "null" =>
              /\ \A i \in 1..Len(solvers) : solver(solvers[i], problem).kind # "result"
              /\ ret.answer = Num(0)
        /\ idx <= Len(solvers) => ret.invariantUsed \in InvariantType

\* solve has returned the metallic-ratio evaluator's result
C4_Witness ==
    /\ pc = "done"
    /\ problem = << Frag("golden ratio", <<>>) >>
    /\ solvers[idx] = "solveMetallicRatioEquilibrium"
    /\ ret.invariantUsed = "undefined"

(***************************************************************************)
(* Properties of Fraction (SpecFraction)                                   *)
(***************************************************************************)
LowestTerms(f) ==
    /\ f.denominator > 0
    /\ GcdRef(Abs(f.numerator), f.denominator) = 1
    /\ (f.numerator = 0 => f.denominator = 1)

\* C5: every Fraction that exists after construction or after any sequence of
\* add, sub, mul, div is in lowest terms with a strictly positive denominator
\* (zero is stored as 0/1).
C5_LowestTerms ==
    /\ LowestTerms(fracA)
    /\ (~fracRet.thrown => LowestTerms(fracRet.value))

C5_Witness ==
    /\ fracCall.op = "sub" /\ ~fracRet.thrown
    /\ fracA.numerator < 0 /\ fracA.denominator > 1
    /\ fracCall.d > 1

\* C6: for all Fractions a and b with b nonzero, a.div(b).mul(b) equals a by
\* cross-multiplication.
C6_DivMulRoundTrip ==
    chainStage = "divmul" => CrossEq(fracA, chainOrig)

C6_Witness ==
    /\ chainStage = "divmul"
    /\ fracCall.op = "mul" /\ fracCall.n < 0 /\ fracCall.d > 1
    /\ chainOrig.numerator # 0 /\ chainOrig.denominator > 1

\* C7: div throws, and returns no Fraction, whenever the divisor's numerator
\* is zero, whatever the dividend.
C7_DivByZeroThrows ==
    (fracCall.op = "div" /\ fracCall.n = 0) =>
        /\ fracRet.thrown
        /\ fracRet.message = DenominatorError
        /\ fracRet.value = NoFraction

C7_Witness ==
    /\ fracCall.op = "div" /\ fracCall.n = 0
    /\ fracRet.thrown
    /\ fracA.numerator # 0

\* C8: the constructor throws for a requested denominator of zero, for every
\* numerator, and no Fraction with denominator 0 is ever observed.
C8_ZeroDenominatorThrows ==
    /\ (fracCall.op = "new" /\ fracCall.d = 0) =>
           (fracRet.thrown /\ fracRet.message = DenominatorError)
    /\ fracA.denominator # 0
    /\ (~fracRet.thrown => fracRet.value.denominator # 0)

C8_Witness ==
    /\ fracCall.op = "new" /\ fracCall.d = 0 /\ fracCall.n # 0
    /\ fracRet.thrown

(***************************************************************************)
(* Properties of the modular helpers (SpecArith)                           *)
(***************************************************************************)
\* C9 (as claimed): for every prime p and all n, k >= 0 (k = 0, k = n and
\* k > n included) lucas returns C(n, k) mod p as computed by brute force.
C9_LucasEveryPrime ==
    (called = "lucas" /\ IsPrime(argP)) =>
        /\ ~arithRet.thrown
        /\ arithRet.val = Binomial(argN, argK) % argP

\* C9, the input that refutes it: C(2, 2) mod 1000000007 is 1, and lucas
\* returns 100849193: den = 2, and power(2, p - 2, p) squares residues near
\* 2^30, so the products pass 2^53 and are rounded before `%`.
C9_Witness ==
    /\ called = "lucas" /\ argP = LargeModulus /\ argN = 2 /\ argK = 2
    /\ Binomial(argN, argK) % argP = 1
    /\ arithRet = [thrown |-> FALSE, val |-> 100849193]

RepeatTexts ==
    UNION { [1..n -> Fragments] : n \in 0..1 }
        \cup { << Frag("frobenius #", <<2>>), Frag("frobenius #", <<3>>) >> }

\* the texts of the calls made in between
OtherTexts == { << Frag("hello world", <<>>) >>, << Frag("riemann", <<>>) >> }

\* solve(problem): the call whose result the caller will keep
SolveShort ==
    /\ pc = "idle"
    /\ seen = NoSeen
    /\ problem' \in RepeatTexts
    /\ pc' = "loop"
    /\ idx' = 1
    /\ ret' = NoResult
    /\ UNCHANGED <<objectVars, callerVars, fracVars, arithVars>>

\* let result = await solver.solve(...): the caller keeps the result
Remember ==
    /\ pc = "done"
    /\ seen = NoSeen
    /\ seen' = [problem |-> problem, modulo |-> modulo, result |-> ret]
    /\ problem' = <<>>
    /\ pc' = "idle"
    /\ idx' = 0
    /\ ret' = NoResult
    /\ UNCHANGED <<objectVars, clock, fracVars, arithVars>>

\* solve(problem): a later call, with the kept text or with another one
SolveAgain ==
    /\ pc = "idle"
    /\ seen # NoSeen
    /\ problem' \in {seen.problem} \cup OtherTexts
    /\ pc' = "loop"
    /\ idx' = 1
    /\ ret' = NoResult
    /\ UNCHANGED <<objectVars, callerVars, fracVars, arithVars>>

\* new Date() moves on
Tick ==
    /\ clock < MaxClock
    /\ clock' = clock + 1
    /\ UNCHANGED <<objectVars, seen, problem, pc, idx, ret, fracVars, arithVars>>

\* new AxiomPrimeSolver(m): the next calls go to another solver object
NewSolver ==
    /\ pc = "idle"
    /\ \E m \in Moduli : modulo' = m
    /\ readonly' = Readonly
    /\ UNCHANGED <<callerVars, problem, pc, idx, ret, fracVars, arithVars>>

RepeatNext ==
    \/ SolveShort \/ Remember \/ SolveAgain \/ Tick \/ NewSolver
    \/ Accept \/ Advance \/ Catch \/ Exhausted \/ Resolved

SpecRepeat == Init /\ [][RepeatNext]_vars

\* a result without the timestamps of its logs
Untimed(r) ==
    [answer |-> r.answer, invariantUsed |-> r.invariantUsed, steps |-> r.steps,
     logs |-> [i \in DOMAIN r.logs |->
                  [message |-> r.logs[i].message, type |-> r.logs[i].type]]]

Infinity == MaxN + 1

\* Math.floor(k / p), the argument k of the next call frame
floorDiv(k, p) ==
    IF p = 0 THEN Infinity
    ELSE IF k = Infinity THEN Infinity
    ELSE k \div p

\* const ans = lucas(n, k, pVal) with the parsed n, k and pVal; the test
\* k === 0 and the next frame's k do not read n, so a few n are drawn
LucasInit ==
    /\ Constructed(DefaultModulo) /\ IdleFraction
    /\ argN \in {0, 2, MaxN} /\ argK \in 0..MaxN /\ argP \in 0..MaxP
    /\ called = "lucas"
    /\ arithRet = [thrown |-> FALSE, val |-> 0]
    /\ frameK = argK /\ depth = 1 /\ lucasPc = "call"

\* if (k === 0) return 1: the innermost frame returns and the frames unwind
LucasBase ==
    /\ lucasPc = "call"
    /\ frameK = 0
    /\ lucasPc' = "base"
    /\ arithRet' = lucas(argN, argK, argP)
    /\ UNCHANGED <<argN, argK, argP, called, frameK, depth, solveVars, fracVars>>

\* lucas(Math.floor(n/p), Math.floor(k/p), p): one more frame
LucasDescend ==
    /\ lucasPc = "call"
    /\ frameK # 0
    /\ depth < MaxStack
    /\ frameK' = floorDiv(frameK, argP)
    /\ depth' = depth + 1
    /\ UNCHANGED <<argN, argK, argP, called, arithRet, lucasPc, solveVars, fracVars>>

\* the stack is full: RangeError (Maximum call stack size exceeded)
LucasOverflow ==
    /\ lucasPc = "call"
    /\ frameK # 0
    /\ depth = MaxStack
    /\ lucasPc' = "RangeError"
    /\ arithRet' = [thrown |-> TRUE, val |-> 0]
    /\ UNCHANGED <<argN, argK, argP, called, frameK, depth, solveVars, fracVars>>

LucasNext == LucasBase \/ LucasDescend \/ LucasOverflow

\* a call that is running takes its next step
SpecLucas == LucasInit /\ [][LucasNext]_vars /\ WF_vars(LucasNext)

\* the stepwise recursion ends as the operator lucas says
LucasAgrees ==
    /\ lucasPc = "base" => ~lucas(argN, argK, argP).thrown
    /\ lucasPc = "RangeError" => lucas(argN, argK, argP).thrown

\* C12 (as claimed): the Lucas recursion reaches k = 0 for every parsed n, k
\* and modulus p.
C12_LucasReachesZero == <>(lucasPc = "base")

\* C12, the input that refutes it: "(2 choose 1) mod 1" (and any k > 0 with
\* modulus 0 or 1): Math.floor(k / 1) is k again, every frame has the same
\* k > 0, and the recursion ends in RangeError when the stack is full.
C12_Witness ==
    /\ lucasPc = "RangeError"
    /\ argP = 1 /\ argN = 2 /\ argK = 1
    /\ frameK = argK
    /\ depth = MaxStack

C14_EvaluatorsTotal ==
    \A i \in 1..Len(solvers) :
        solver(solvers[i], problem) = Null
            \/ solver(solvers[i], problem).kind = "result"

\* C14, the input that refutes it: "subset ... n=0": the combinatorial
\* evaluator computes 4n ** BigInt(-1) and BigInt exponentiation raises
\* RangeError for the negative exponent
C14_Witness ==
    /\ problem = << Frag("subset", <<>>), Frag("n=#", <<0>>) >>
    /\ solveCombinatorial(problem) = Thrown
    /\ pc = "done"

\* the first two numbers of the text that lie in 2..500
C15_Generators(p) == SelectSeq(wordNumbers(p), LAMBDA n : n \in 2..500)

\* the Diophantine evaluator applies to the text and two generators are there
C15_Applies(p) == solveDiophantine(p) # Null /\ Len(C15_Generators(p)) >= 2

C15_Coprime(p) == GcdRef(C15_Generators(p)[1], C15_Generators(p)[2]) = 1

C15_Frobenius(p) ==
    C15_Generators(p)[1] * C15_Generators(p)[2]
        - C15_Generators(p)[1] - C15_Generators(p)[2]

\* C15 (as claimed): for two coprime generators a, b extracted from the text
\* (each in 2..500), the Diophantine evaluator's answer is exactly
\* a*b - a - b.
C15_ExactFrobenius ==
    (C15_Applies(problem) /\ C15_Coprime(problem)) =>
        solveDiophantine(problem).result.answer = Num(C15_Frobenius(problem))

\* C15 (amended): for two coprime generators a, b extracted from the text
\* (each in 2..500), the Diophantine evaluator's answer is a*b - a - b
\* reduced modulo the solver's modulus; it is a*b - a - b itself when that is
\* below the modulus.
C15_FrobeniusModulo ==
    (C15_Applies(problem) /\ C15_Coprime(problem)) =>
        /\ solveDiophantine(problem).kind = "result"
        /\ solveDiophantine(problem).result.answer
               = Num(C15_Frobenius(problem) % modulo)
        /\ solveDiophantine(problem).result.invariantUsed = "DIOPHANTINE"

\* solve has returned the Diophantine result for generators 499 and 500 under
\* the default modulus: 248501 is reported as 48501
C15_Witness ==
    /\ pc = "done"
    /\ modulo = DefaultModulo
    /\ problem = << Frag("frobenius #", <<499>>), Frag("frobenius #", <<500>>) >>
    /\ C15_Coprime(problem)
    /\ C15_Frobenius(problem) = 248501
    /\ ret = solveDiophantine(problem).result
    /\ ret.answer = Num(48501)

\* C16: whenever the two extracted Frobenius generators are not coprime
\* (6 and 9, say), the Diophantine evaluator's answer is the symbolic
\* infinite sentinel and never a number.
C16_NotCoprimeIsInfinite ==
    (C15_Applies(problem) /\ ~C15_Coprime(problem)) =>
        /\ solveDiophantine(problem).kind = "result"
        /\ solveDiophantine(problem).result.answer = Str("Infinity")
        /\ solveDiophantine(problem).result.answer.t # "number"

\* solve has returned the sentinel for generators 6 and 9
C16_Witness ==
    /\ pc = "done"
    /\ problem = << Frag("frobenius #", <<6>>), Frag("frobenius #", <<9>>) >>
    /\ ~C15_Coprime(problem)
    /\ ret = solveDiophantine(problem).result
    /\ ret.answer = Str("Infinity")

\* the counts the text gives: <<n>> or <<>>
C17_V(p) == match("polyhedron with # vertices" :> 1, p)
C17_E(p) == match(("# edges" :> 1) @@ ("polyhedron with # edges" :> 1), p)
C17_F(p) == match("# faces" :> 1, p)

\* the answer is the count the text leaves out, by V - E + F = 2
C17_Solves(p, v, e, f) ==
    /\ solveGeometric(p).kind = "result"
    /\ solveGeometric(p).result.answer.t = "number"
    /\ solveGeometric(p).result.answer.d = 1
    /\ LET x == solveGeometric(p).result.answer.n
       IN  \/ v # <<>> /\ e # <<>> /\ f = <<>> /\ v[1] - e[1] + x = 2
           \/ v # <<>> /\ f # <<>> /\ e = <<>> /\ v[1] - x + f[1] = 2
           \/ e # <<>> /\ f # <<>> /\ v = <<>> /\ x - e[1] + f[1] = 2

\* the cases the evaluator handles: V and E given, or V and F given
C17_WithVertices ==
    ( /\ includes(problem, "polyhedron")
      /\ C17_V(problem) # <<>>
      /\ (C17_E(problem) = <<>>) # (C17_F(problem) = <<>>) )
    => C17_Solves(problem, C17_V(problem), C17_E(problem), C17_F(problem))

\* C17 (as claimed): for a polyhedron text giving any two of the counts of
\* vertices, edges and faces (V and E, V and F, or E and F), the geometric
\* evaluator returns the missing count, so that V - E + F = 2.
C17_EulerAnyTwo ==
    ( /\ includes(problem, "polyhedron")
      /\ \/ C17_V(problem) # <<>> /\ C17_E(problem) # <<>> /\ C17_F(problem) = <<>>
         \/ C17_V(problem) # <<>> /\ C17_F(problem) # <<>> /\ C17_E(problem) = <<>>
         \/ C17_E(problem) # <<>> /\ C17_F(problem) # <<>> /\ C17_V(problem) = <<>> )
    => C17_Solves(problem, C17_V(problem), C17_E(problem), C17_F(problem))

\* C17, the input that refutes it: "polyhedron with 12 edges; 6 faces" gives
\* E and F, and the evaluator returns null instead of V = 8
C17_Witness ==
    /\ pc = "done"
    /\ problem = << Frag("polyhedron with # edges", <<12>>), Frag("# faces", <<6>>) >>
    /\ C17_E(problem) = <<12>> /\ C17_F(problem) = <<6>> /\ C17_V(problem) = <<>>
    /\ solveGeometric(problem) = Null
    /\ ret.invariantUsed # "GEOMETRIC"

\* the parameters of the polynomial text: <<a1, a2>>, the points, <<t>>
C18_Coeffs(p) == matchGroups({QuadraticForm}, p)
C18_Points(p) == allPoints(p)
C18_Target(p) == match("find p(#)" :> 1, p)

\* the text gives coefficients, two points with x1 # x2 and a target
C18_Given(p) ==
    /\ includes(p, "quadratic") \/ includes(p, "polynomial")
    /\ C18_Coeffs(p) # <<>>
    /\ Len(C18_Points(p)) >= 2
    /\ C18_Points(p)[1][1] # C18_Points(p)[2][1]
    /\ C18_Target(p) # <<>>

\* P(t) + Q(t) as numerator over x2 - x1: P(t) = a*t^2 + L(t) with L the line
\* through (x1, y1 - a*x1^2) and (x2, y2 - a*x2^2)
C18_SumNumerator(a1, a2, x1, y1, x2, y2, t) ==
    LET R1 == 2 * y1 - (a1 + a2) * x1 * x1
        R2 == 2 * y2 - (a1 + a2) * x2 * x2
    IN  (a1 + a2) * t * t * (x2 - x1) + R1 * (x2 - x1) + (R2 - R1) * (t - x1)

\* the greatest integer below or at n / d
C18_Floor(n, d) == IF d > 0 THEN n \div d ELSE (-n) \div (-d)

C18_IntegerPart(p) ==
    LET x1 == C18_Points(p)[1][1]   y1 == C18_Points(p)[1][2]
        x2 == C18_Points(p)[2][1]   y2 == C18_Points(p)[2][2]
    IN  C18_Floor(C18_SumNumerator(C18_Coeffs(p)[1], C18_Coeffs(p)[2],
                                   x1, y1, x2, y2, C18_Target(p)[1]),
                  x2 - x1)

\* the quadratic with leading coefficient a passes through both points
C18_Through(a, p) ==
    LET x1 == C18_Points(p)[1][1]   y1 == C18_Points(p)[1][2]
        x2 == C18_Points(p)[2][1]   y2 == C18_Points(p)[2][2]
    IN  /\ getPolynomialAt(a, x1, y1, x2, y2, x1) = [numerator |-> y1, denominator |-> 1]
        /\ getPolynomialAt(a, x1, y1, x2, y2, x2) = [numerator |-> y2, denominator |-> 1]

\* C18: for leading coefficients a1, a2, two points with x1 # x2 and a target
\* t, the polynomial evaluator's P and Q (exact rationals) both pass through
\* both points, and its answer is the integer part of P(t) + Q(t) reduced
\* modulo the modulus: congruent to it, smaller than the modulus in absolute
\* value, and equal to the remainder when the integer part is not negative.
C18_Interpolation ==
    C18_Given(problem) =>
        /\ C18_Through(C18_Coeffs(problem)[1], problem)
        /\ C18_Through(C18_Coeffs(problem)[2], problem)
        /\ solvePolynomial(problem).kind = "result"
        /\ solvePolynomial(problem).result.answer.t = "number"
        /\ solvePolynomial(problem).result.answer.d = 1
        /\ LET answer == solvePolynomial(problem).result.answer.n
           IN  /\ (answer - C18_IntegerPart(problem)) % modulo = 0
               /\ answer < modulo /\ -answer < modulo
               /\ C18_IntegerPart(problem) >= 0 =>
                      answer = C18_IntegerPart(problem) % modulo

\* solve has returned 49510 for coefficients 2, 3, points (1, 5), (2, 10) and
\* target 100 under the default modulus
C18_Witness ==
    /\ pc = "done"
    /\ modulo = DefaultModulo
    /\ problem = << Frag(QuadraticForm, <<2, 3, 1, 5, 2, 10>>), Frag("find p(#)", <<100>>) >>
    /\ C18_Given(problem)
    /\ C18_IntegerPart(problem) = 49510
    /\ ret = solvePolynomial(problem).result
    /\ ret.answer = Num(49510)

\* the evaluators that reduce their result with this.modulo
C19_Reducing == {"solvePolynomial", "solveDiophantine", "solveCombinatorial"}

\* C19 (as claimed): every numeric answer of an evaluator that applies the
\* reduction modulus m (polynomial, Diophantine, combinatorial) lies in
\* 0 <= answer < m, negative unreduced values included.
C19_AnswerInRange ==
    \A name \in C19_Reducing :
        ( /\ solver(name, problem).kind = "result"
          /\ solver(name, problem).result.answer.t = "number" )
        => /\ solver(name, problem).result.answer.d = 1
           /\ solver(name, problem).result.answer.n >= 0
           /\ solver(name, problem).result.answer.n < modulo

\* C19, the input that refutes it: coefficients 0, 0 through (0, -3) and
\* (1, -3) with target 2: P(2) + Q(2) = -6, and -6 % 100000 is -6 in
\* JavaScript
C19_Witness ==
    /\ pc = "done"
    /\ modulo = DefaultModulo
    /\ problem = << Frag(QuadraticForm, <<0, 0, 0, -3, 1, -3>>), Frag("find p(#)", <<2>>) >>
    /\ C18_IntegerPart(problem) = -6
    /\ ret = solvePolynomial(problem).result
    /\ ret.answer = Num(-6)

\* the answers of the Diophantine and the combinatorial evaluator are in
\* range: their unreduced values are never negative
C19_NonNegativeInRange ==
    \A name \in {"solveDiophantine", "solveCombinatorial"} :
        ( /\ solver(name, problem).kind = "result"
          /\ solver(name, problem).result.answer.t = "number" )
        => /\ solver(name, problem).result.answer.n >= 0
           /\ solver(name, problem).result.answer.n < modulo

\* the polynomial evaluator computed, so the text names a target abscissa
C20_PolynomialHasTarget ==
    solvePolynomial(problem).kind = "result" => C18_Target(problem) # <<>>

\* the emission evaluator computed, so psi, base or halvings comes from the text
C20_EmissionHasParameter ==
    solveEmissionRate(problem).kind = "result" =>
        emissionParameters(problem)
            # [psiMagnitude |-> "0.8", halvings |-> "0", baseEmission |-> "50"]

\* C20 (as claimed): an evaluator extracts every parameter its formula needs
\* from the text or returns null; in particular the polynomial evaluator does
\* not compute with a target abscissa that is absent from the text, and the
\* emission evaluator does not compute when psi, base and halvings are all
\* absent.
C20_NoSilentDefaults == C20_PolynomialHasTarget /\ C20_EmissionHasParameter

\* C20, the input that refutes it: "quadratic leading coeff 2, 3 through
\* (1, 5), (2, 10)" names no target; the evaluator takes 0 for it and solve
\* returns P(0) + Q(0) = 10
C20_Witness ==
    /\ pc = "done"
    /\ modulo = DefaultModulo
    /\ problem = << Frag(QuadraticForm, <<2, 3, 1, 5, 2, 10>>) >>
    /\ C18_Target(problem) = <<>>
    /\ ret = solvePolynomial(problem).result
    /\ ret.answer = Num(10)

(***************************************************************************)
(* Properties of the Network B evaluators (Spec)                           *)
(***************************************************************************)
\* C21 (as claimed): the reputation evaluator never divides by zero and
\* never reports an infinite or undefined score: the divisor 1 + faults is
\* nonzero, and a zero median stake or median age is a domain error, not
\* computed through.
C21_NoDegenerateScore ==
    solveReputationScore(problem).kind = "result" =>
        /\ 1 + reputationParameters(problem).faults[1] # 0
        /\ reputationParameters(problem).medianStake[1] # 0
        /\ reputationParameters(problem).medianAge[1] # 0
        /\ solveReputationScore(problem).result.answer.s \notin {"Infinity", "NaN"}

\* C21, the input that refutes it: "reputation stake=1, median stake=0;
\* age=2, median age=1": stake / medianStake is 1 / 0 = Infinity and solve
\* returns the score "Infinity"
C21_Witness ==
    /\ pc = "done"
    /\ problem = << Frag("reputation stake=#, median stake=#", <<1, 0>>),
                    Frag("age=#, median age=#", <<2, 1>>) >>
    /\ reputationParameters(problem).medianStake = <<0>>
    /\ ret = solveReputationScore(problem).result
    /\ ret.answer = Str("Infinity")

\* the value of the text's own stake= field (the one not preceded by
\* "median"), <<>> when the text has none
C28_OwnStake(p) ==
    match(("reputation stake=#, median stake=#" :> 1)
          @@ ("reputation median stake=#, stake=#" :> 2), p)

\* the value of the text's own age= field, <<>> when the text has none
C28_OwnAge(p) ==
    match(("age=#, median age=#" :> 1) @@ ("median age=#, age=#" :> 2), p)

\* C28 (as claimed): in the reputation evaluator the extracted stake and age
\* are the values of the text's own stake= and age= fields, never those of
\* the median stake= or median age= fields, whatever the order of the fields.
C28_OwnFields ==
    solveReputationScore(problem).kind = "result" =>
        /\ reputationParameters(problem).stake = C28_OwnStake(problem)
        /\ reputationParameters(problem).age = C28_OwnAge(problem)

\* C28, the input that refutes it: "reputation median stake=1, stake=2;
\* median age=1, age=2": /stake\s*=/ first matches inside "median stake=1",
\* so the evaluator computes with stake 1 and age 1 instead of 2 and 2
C28_Witness ==
    /\ pc = "done"
    /\ problem = << Frag("reputation median stake=#, stake=#", <<1, 2>>),
                    Frag("median age=#, age=#", <<1, 2>>) >>
    /\ C28_OwnStake(problem) = <<2>> /\ C28_OwnAge(problem) = <<2>>
    /\ reputationParameters(problem).stake = <<1>>
    /\ reputationParameters(problem).age = <<1>>
    /\ ret = solveReputationScore(problem).result

\* with each field before its median field the extraction is right
C28_OwnFieldsFirst ==
    ( /\ solveReputationScore(problem).kind = "result"
      /\ \E i \in DOMAIN problem : problem[i].w = "reputation stake=#, median stake=#"
      /\ \E i \in DOMAIN problem : problem[i].w = "age=#, median age=#" )
    => /\ reputationParameters(problem).stake = C28_OwnStake(problem)
       /\ reputationParameters(problem).age = C28_OwnAge(problem)

\* the pool index and the tau the text gives: <<n>> or <<>>
C22_Pool(p) ==
    match(("unlock pool #" :> 1) @@ ("pool #" :> 1)
          @@ ("dimensional scale for pool #" :> 1) @@ ("n=#" :> 1), p)
C22_Tau(p)  == match("tau=#" :> 1, p)

\* the table 0.00, 0.20, 0.41, 0.68, 0.98, 1.36, 1.96, 2.72, in hundredths
C22_Table == <<0, 20, 41, 68, 98, 136, 196, 272>>

\* C22: in the dimensional-scale evaluator a pool index n in 1..8 without an
\* explicit tau selects the n-th entry of the table (pool 4 uses 0.68), an
\* explicit tau in the text overrides the table, and with neither a pool
\* index nor a tau the evaluator is not applicable.
C22_TauOfPool ==
    some({"dimensional scale", "pool scale", "d_n", "exponential scale",
          "scale factor"}, problem)
    => /\ (C22_Tau(problem) = <<>> /\ C22_Pool(problem) # <<>>
           /\ C22_Pool(problem)[1] \in 1..8)
          => /\ solveDimensionalScale(problem).kind = "result"
             /\ dimensionalTau(problem) = C22_Table[C22_Pool(problem)[1]]
       /\ C22_Tau(problem) # <<>>
          => /\ solveDimensionalScale(problem).kind = "result"
             /\ dimensionalTau(problem) = 100 * C22_Tau(problem)[1]
       /\ (C22_Tau(problem) = <<>> /\ C22_Pool(problem) = <<>>)
          => solveDimensionalScale(problem) = Null

\* solve has returned the dimensional scale of pool 4, computed with tau 0.68
C22_Witness ==
    /\ pc = "done"
    /\ problem = << Frag("dimensional scale for pool #", <<4>>) >>
    /\ C22_Pool(problem) = <<4>> /\ C22_Tau(problem) = <<>>
    /\ dimensionalTau(problem) = 68
    /\ ret = solveDimensionalScale(problem).result
    /\ ret.invariantUsed = "DIMENSIONAL_SCALE"

\* solve has returned the dimensional scale for a text naming pool 4 and
\* tau=1: the tau of the text is used, not the table's 0.68
C22_Override ==
    /\ pc = "done"
    /\ problem = << Frag("dimensional scale for pool #", <<4>>), Frag("tau=#", <<1>>) >>
    /\ dimensionalTau(problem) = 100
    /\ ret = solveDimensionalScale(problem).result

(***************************************************************************)
(* The constants of the solver (Spec).  A constant of the form             *)
(* (a + b * sqrt(2)) / 2 with integers a, b is the record [a, b].          *)
(***************************************************************************)
\* the value of a readonly field's initialiser
evaluate(expression) ==
    CASE expression = "1 / Math.sqrt(2)" -> [a |-> 0, b |-> 1]
      [] expression = "Math.sqrt(2)"     -> [a |-> 0, b |-> 2]
      \* 0.5 + this.ETA, this.ETA being 1 / Math.sqrt(2)
      [] expression = "0.5 + this.ETA"   -> [a |-> 1 + 0, b |-> 1]

\* getConstants(): the fields with a value in the rationals extended by
\* sqrt(2); PHI, PHI_INV, PHI_INV_2 and ORACLE_DELTA are returned as well and
\* are left out here
getConstants ==
    [ETA            |-> evaluate(readonly.ETA),
     LAMBDA_        |-> evaluate(readonly.LAMBDA_),
     TAU_C          |-> evaluate(readonly.TAU_C),
     DELTA_CRITICAL |-> evaluate(readonly.DELTA_CRITICAL)]

\* x * y for x = (x.a + x.b * sqrt(2)) / 2 and y likewise, when the product
\* has that form
C23_Times(x, y) ==
    [a |-> (x.a * y.a + 2 * x.b * y.b) \div 2, b |-> (x.a * y.b + x.b * y.a) \div 2]

\* 1 - eta
C23_OneMinus(x) == [a |-> 2 - x.a, b |-> -x.b]

\* C23 (as claimed): the constant DELTA_CRITICAL returned by getConstants and
\* used by the staking-multiplier evaluator equals eta * (1 - eta) with
\* eta = 1 / sqrt(2), about 0.207.
C23_DeltaCritical ==
    /\ getConstants.ETA = [a |-> 0, b |-> 1]
    /\ getConstants.DELTA_CRITICAL
           = C23_Times(getConstants.ETA, C23_OneMinus(getConstants.ETA))

\* C23, the state that refutes it: solve has returned a staking multiplier,
\* computed with DELTA_CRITICAL = 0.5 + eta = (1 + sqrt(2)) / 2, about 1.207,
\* which is eta * (1 - eta) = (-1 + sqrt(2)) / 2 plus one
C23_Witness ==
    /\ pc = "done"
    /\ ret.invariantUsed = "STAKING_MULTIPLIER"
    /\ ret = solveStakingMultiplier(problem).result
    /\ getConstants.DELTA_CRITICAL = [a |-> 1, b |-> 1]
    /\ C23_Times(getConstants.ETA, C23_OneMinus(getConstants.ETA)) = [a |-> -1, b |-> 1]

(***************************************************************************)
(* Properties of the dispatch loop (Spec).                                 *)
(***************************************************************************)
\* a text with 'psi stability' and a 't=' field and no 'tau=' field
C24_PsiText ==
    /\ includes(problem, "psi stability")
    /\ \E i \in DOMAIN problem : problem[i].w = "t=#"
    /\ match(tauForm, problem) = <<>>

\* at its turn the consensus-state evaluator, whose trigger 'psi' matches,
\* returns null for such a text
C24_PassesConsensus ==
    (C24_PsiText /\ InLoop /\ solvers[idx] = "solveConsensusState")
        => /\ some({"psi"}, problem)
           /\ solveConsensusState(problem) = Null

\* no evaluator before the psi-stability evaluator, the consensus-state
\* evaluator aside, has its result accepted for the text
C24_NoneEarlier ==
    \A i \in 1..20 :
        solvers[i] # "solveConsensusState" => ~accepted(solver(solvers[i], problem))

\* solve returns for such a text, when no other evaluator takes it earlier,
\* with the result of the psi-stability evaluator
C24_ResolvedByPsi ==
    (C24_PsiText /\ pc = "done" /\ C24_NoneEarlier)
        => /\ idx = 21
           /\ solvers[idx] = "solvePsiStability"
           /\ ret = solvePsiStability(problem).result
           /\ ret.invariantUsed = "PSI_STABILITY"

\* an evaluator that returns null leaves the loop running on the same text
\* with the next evaluator
C24_NullContinues ==
    (InLoop /\ solver(solvers[idx], problem) = Null)
        => (pc' = "loop" /\ idx' = idx + 1 /\ problem' = problem /\ ret' = ret)

\* C24: an evaluator whose trigger matches but whose required parameter is
\* missing returns null and the dispatch goes on to the next evaluator, so
\* that a later evaluator whose trigger matches resolves the text: a text with
\* 'psi stability' and 't=' but no 'tau=' passes the consensus-state evaluator
\* (trigger 'psi') and is resolved by the psi-stability evaluator.
C24_DispatchContinues ==
    /\ [](C24_PassesConsensus /\ C24_ResolvedByPsi)
    /\ [][C24_NullContinues]_vars

\* C24, its case: solve has returned for such a text, the loop having gone
\* past the consensus-state evaluator up to the psi-stability evaluator
C24_Witness ==
    /\ C24_PsiText
    /\ pc = "done"
    /\ solvers[idx] = "solvePsiStability"
    /\ solvers[11] = "solveConsensusState" /\ idx > 11
    /\ some({"psi"}, problem)
    /\ C24_NoneEarlier
    /\ ret.invariantUsed = "PSI_STABILITY"

\* the text asks about the Riemann hypothesis itself
C25_AboutRH ==
    \/ includes(problem, "riemann hypothesis")
    \/ includes(problem, "prove rh")
    \/ includes(problem, "solve rh")

\* no evaluator strictly between the spectral-zeta evaluator and the
\* prime-spectral engine has its result accepted for the text
C25_NoneBetween ==
    \A i \in 2..17 : ~accepted(solver(solvers[i], problem))

\* C25: a text containing 'riemann hypothesis', 'prove rh' or 'solve rh' is
\* never resolved by the spectral-zeta evaluator, although it is first in the
\* order and 'riemann' is one of its triggers; when no evaluator between the
\* two has its result accepted, the text is resolved by the prime-spectral
\* engine with identifier RH_EQUILIBRIUM.
C25_RiemannHypothesis ==
    /\ solvers[1] = "solveSpectralZeta" /\ solvers[18] = "solvePrimeSpectralEngine"
    /\ (C25_AboutRH /\ pc = "done")
           => /\ solvers[idx] # "solveSpectralZeta"
              /\ ret.invariantUsed # "SPECTRAL_ZETA"
              /\ C25_NoneBetween
                     => /\ solvers[idx] = "solvePrimeSpectralEngine"
                        /\ ret = solvePrimeSpectralEngine(problem).result
                        /\ ret.invariantUsed = "RH_EQUILIBRIUM"

\* C25, its case: solve has returned the prime-spectral engine's result for a
\* text that has the spectral-zeta trigger 'riemann' next to 'prove rh'
C25_Witness ==
    /\ pc = "done"
    /\ includes(problem, "riemann") /\ includes(problem, "prove rh")
    /\ ~includes(problem, "riemann hypothesis")
    /\ C25_NoneBetween
    /\ solvers[idx] = "solvePrimeSpectralEngine"
    /\ ret.invariantUsed = "RH_EQUILIBRIUM"

\* a text about the Riemann hypothesis is resolved by an evaluator between
\* the two
C25_ResolvedBetween ==
    /\ pc = "done"
    /\ C25_AboutRH
    /\ ~C25_NoneBetween
    /\ idx \in 2..17

(***************************************************************************)
(* Properties of the classical evaluators (Spec).                          *)
(***************************************************************************)
\* m and n have no common divisor but 1
C26_Coprime(m, n) == \A d \in 2..m : ~(m % d = 0 /\ n % d = 0)

\* Euler's phi: the number of m in 1..n with gcd(m, n) = 1
C26_Phi(n) == Cardinality({ m \in 1..n : C26_Coprime(m, n) })

\* a text that reaches the totient branch and whose first integer is n >= 1
C26_TotientText ==
    /\ includes(problem, "totient")
    /\ matchGroups({BinomialForm}, problem) = <<>>
    /\ firstDigits(problem) # <<>>
    /\ firstDigits(problem)[1] >= 1

\* C26: for a totient text whose first integer is n >= 1 the number-theory
\* evaluator returns Euler's phi(n), the number of integers m in 1..n with
\* gcd(m, n) = 1.
C26_TotientIsPhi ==
    (C26_TotientText /\ pc \in {"loop", "done"})
        => /\ solveNumberTheory(problem).kind = "result"
           /\ solveNumberTheory(problem).result.answer
                  = Num(C26_Phi(firstDigits(problem)[1]))
           /\ solveNumberTheory(problem).result.invariantUsed = "NUMBER_THEORY"
           /\ (pc = "done" /\ solvers[idx] = "solveNumberTheory")
                  => ret = solveNumberTheory(problem).result

\* C26, its case: solve has returned phi(30) = 8, 30 having three prime
\* factors
C26_Witness ==
    /\ pc = "done"
    /\ solvers[idx] = "solveNumberTheory"
    /\ C26_TotientText
    /\ firstDigits(problem) = <<30>>
    /\ ret.answer = Num(8)

\* the first integers of the totient texts include 1, a prime, a prime power
\* and products of two and three primes
C26_Covered(n) ==
    /\ pc = "done" /\ C26_TotientText /\ firstDigits(problem) = <<n>>
    /\ solvers[idx] = "solveNumberTheory"
C26_CoveredOne == C26_Covered(1)
C26_CoveredPrimePower == C26_Covered(9)
C26_CoveredTwelve == C26_Covered(12)

\* the first fragment of the text that holds a quadratic
C27_Quadratic == problem[Min({ i \in DOMAIN problem : quadraticGroups(problem[i]) # <<>> })]

\* the coefficients b and c of x^2 + b x + c = 0 as written in a fragment
C27_B(f) ==
    CASE f.w \in {RootSumForm, RootSquaresForm, RootProductForm} -> f.a[1]
      [] f.w \in {RootSumMinusForm, RootSquaresMinusForm}        -> -f.a[1]
      [] f.w = RootSumBareForm                                   -> -1
      [] f.w = RootSquaresBareForm                               -> 1
C27_C(f) ==
    CASE f.w \in {RootSumForm, RootSquaresForm, RootProductForm, RootSumMinusForm} -> f.a[2]
      [] f.w = RootSquaresMinusForm -> -f.a[2]
      [] f.w = RootSumBareForm      -> f.a[1]
      [] f.w = RootSquaresBareForm  -> -f.a[1]

\* the integer root pairs of x^2 + b x + c = 0: (x - r1)(x - r2)
C27_Roots(b, c) ==
    { r \in (-9..9) \X (-9..9) :
          \A x \in -2..2 : x * x + b * x + c = (x - r[1]) * (x - r[2]) }

\* C27: for a monic quadratic x^2 + b x + c = 0 parsed from the text (signed
\* integers b and c, a bare sign standing for the coefficient 1 or -1) the
\* root-dynamics evaluator returns -b for 'sum of the roots' and, failing
\* that phrase, b^2 - 2c for 'sum of the squares'; these are r1 + r2 and
\* r1^2 + r2^2 for the roots r1, r2; with neither phrase it returns null.
C27_Vieta ==
    (pc \in {"loop", "done"} /\ quadraticMatch(problem) # <<>>)
        => LET b == C27_B(C27_Quadratic)
               c == C27_C(C27_Quadratic)
               o == solveRootDynamics(problem)
           IN  /\ includes(problem, "sum of the roots")
                      => /\ o.kind = "result"
                         /\ o.result.answer = Num(-b)
                         /\ o.result.invariantUsed = "ROOT_DYNAMICS"
               /\ (~includes(problem, "sum of the roots")
                   /\ includes(problem, "sum of the squares"))
                      => /\ o.kind = "result"
                         /\ o.result.answer = Num(b * b - 2 * c)
                         /\ o.result.invariantUsed = "ROOT_DYNAMICS"
               /\ (~includes(problem, "sum of the roots")
                   /\ ~includes(problem, "sum of the squares"))
                      => o = Null
               /\ \A r \in C27_Roots(b, c) :
                      /\ -b = r[1] + r[2]
                      /\ b * b - 2 * c = r[1] * r[1] + r[2] * r[2]
               /\ (pc = "done" /\ idx = 8 /\ solvers[idx] = "solveRootDynamics")
                      => ret = o.result

\* C27, its case: solve has returned 5 = 1^2 + (-2)^2 for the sum of the
\* squares of the roots of x^2 + x - 2 = 0, whose x has a bare sign
C27_Witness ==
    /\ pc = "done"
    /\ solvers[idx] = "solveRootDynamics"
    /\ problem = << Frag(RootSquaresBareForm, <<2>>) >>
    /\ C27_Roots(1, -2) = { <<1, -2>>, <<-2, 1>> }
    /\ ret.answer = Num(5)

\* solve has returned 5 = 2 + 3 for the sum of the roots of x^2 - 5x + 6 = 0
C27_Example ==
    /\ pc = "done"
    /\ solvers[idx] = "solveRootDynamics"
    /\ problem = << Frag(RootSumMinusForm, <<5, 6>>) >>
    /\ ret.answer = Num(5)

\* a text with a quadratic and neither phrase has gone past the evaluator
C27_Neither ==
    /\ pc = "loop"
    /\ idx > 8 /\ solvers[8] = "solveRootDynamics"
    /\ problem = << Frag(RootProductForm, <<3, 2>>) >>

\* a text with both phrases is answered with the sum of the roots
C27_BothPhrases ==
    /\ pc = "done"
    /\ solvers[idx] = "solveRootDynamics"
    /\ includes(problem, "sum of the roots") /\ includes(problem, "sum of the squares")
    /\ ret.answer = Num(-C27_B(C27_Quadratic))

\* the text has a quadratic form and its first two points share the abscissa
C29_SameAbscissa ==
    /\ includes(problem, "quadratic")
    /\ matchGroups({QuadraticForm}, problem) # <<>>
    /\ Len(allPoints(problem)) >= 2
    /\ allPoints(problem)[1][1] = allPoints(problem)[2][1]

\* getPolynomialAt for the text's leading coefficient number k and its first
\* two points, at tx
C29_ValueAt(k, tx) ==
    getPolynomialAt(matchGroups({QuadraticForm}, problem)[k],
                    allPoints(problem)[1][1], allPoints(problem)[1][2],
                    allPoints(problem)[2][1], allPoints(problem)[2][2], tx)

\* C29: when the two interpolation points of a polynomial text share the
\* abscissa (x1 = x2) the polynomial evaluator performs no Fraction division
\* and raises no error: both quadratics evaluate to the Fraction 0 and the
\* evaluator returns the answer 0 with the POLYNOMIAL identifier.  (A division
\* by Fraction(x1 - x2) would raise: its result would have denominator 0.)
C29_NoDivision ==
    (C29_SameAbscissa /\ pc \in {"loop", "done"})
        => /\ \A k \in 1..2 : \A tx \in 0..MaxNum :
                  C29_ValueAt(k, tx) = [numerator |-> 0, denominator |-> 1]
           /\ Fraction_div(Fraction_of(1),
                  Fraction_of(allPoints(problem)[1][1] - allPoints(problem)[2][1])).thrown
           /\ solvePolynomial(problem).kind = "result"
           /\ solvePolynomial(problem).result.answer = Num(0)
           /\ solvePolynomial(problem).result.invariantUsed = "POLYNOMIAL"
           /\ pc = "done" => idx <= 2
           /\ (pc = "done" /\ idx = 2) => ret = solvePolynomial(problem).result

\* C29, its case: solve has returned 0 for a quadratic text through (1, 1)
\* and (1, 2) with the target p(2)
C29_Witness ==
    /\ pc = "done"
    /\ problem = << Frag(QuadraticForm, <<1, 1, 1, 1, 1, 2>>), Frag("find p(#)", <<2>>) >>
    /\ C29_SameAbscissa
    /\ solvers[idx] = "solvePolynomial"
    /\ ret.answer = Num(0)
    /\ ret.invariantUsed = "POLYNOMIAL"

(***************************************************************************)
(* Canonical form of Fraction (SpecFraction)                               *)
(***************************************************************************)
\* the stored numerators are equal and the stored denominators are equal
C30_SameFields(x, y) == x.numerator = y.numerator /\ x.denominator = y.denominator

\* the Fractions new Fraction(n, d) for n, d up to the cap
C30_Constructed ==
    { Fraction_new(n, d).value : n \in (-FracCap)..FracCap, d \in ((-FracCap)..FracCap) \ {0} }

\* C30: the representation is canonical: two Fractions obtained by any
\* construction or sequence of add, sub, mul, div represent the same rational
\* (are equal by cross-multiplication) if and only if their stored numerators
\* are equal and their stored denominators are equal.
C30_Canonical ==
    /\ \A g \in C30_Constructed : CrossEq(fracA, g) <=> C30_SameFields(fracA, g)
    /\ CrossEq(fracA, chainOrig) <=> C30_SameFields(fracA, chainOrig)
    /\ ~fracRet.thrown =>
           (CrossEq(fracRet.value, chainOrig) <=> C30_SameFields(fracRet.value, chainOrig))

\* C30, its case: a.div(b).mul(b) with b other than 1 and a not an integer has
\* returned; the product and a, obtained in different ways, are the same
\* rational and have the same fields
C30_Witness ==
    /\ chainStage = "divmul"
    /\ fracCall.op = "mul" /\ fracCall.n # fracCall.d
    /\ ~fracRet.thrown
    /\ chainOrig.denominator > 1
    /\ CrossEq(fracA, chainOrig)
    /\ C30_SameFields(fracA, chainOrig)

\* two Fractions of different value are held: a and a.div(b)
C30_Distinct ==
    /\ chainStage = "div"
    /\ ~CrossEq(fracA, chainOrig)
    /\ ~C30_SameFields(fracA, chainOrig)

====
